---- MODULE Spec2Model ----
(***************************************************************************)
(* Client-side state machine of the bursary application form: step         *)
(* progression, conditional field visibility, validation and submission.   *)
(* The sources hold five programs for the same form; a page loads one of   *)
(* them (variable variant):                                                *)
(*   "static"        src/static/app.js, lines 1-531                        *)
(*   "staticfiles1"  src/staticfiles/app.js, lines 1-371                   *)
(*   "staticfiles2"  src/staticfiles/app.js, lines 372-703                 *)
(*   "part000"       src/unnamed/part_000                                  *)
(*   "app"           src/app.js                                            *)
(* Definitions without a suffix are those of src/static/app.js; the        *)
(* functions of the other programs carry the suffix _sf1, _sf2, _p0, _app. *)
(* The help chatbot of src/static/app.js (lines 532-827) is the field chat *)
(* of the page.                                                            *)
(* The page markup (index.html / style.css) is not part of the sources;    *)
(* the document the handlers run against is described by the definitions   *)
(* of the section "Document" below, using the element ids and names the    *)
(* scripts refer to.                                                       *)
(*                                                                         *)
(* Every handler runs to completion on the UI thread, so each event is one *)
(* action.  Functions of the script that mutate the page are operators     *)
(* from a page state (a record with one field per variable) to a page      *)
(* state, composed in the order of the calls in the source.                *)
(***************************************************************************)
EXTENDS Integers, Sequences, FiniteSets, TLC

\* ---------------------------------------------------------------- bounds
\* Number of inputs (typing, selecting, attaching, choosing a radio option) the
\* user makes in one behaviour; navigation, blur and submit are not counted.
MaxEdits == 3
\* The same number for the behaviours that range over all five programs.
MaxVariantEdits == 1
\* Number of submit events that pass validation in one behaviour of src/app.js.
MaxSubmits == 2
\* Largest amount drawn for the exhaustive check of the financial rules.
MaxFee == 12

\* ------------------------------------------------------------- Document
\* sections.length of the concrete form
totalSteps == 5

RadioNames == {"orphan", "disability", "previousBursary", "bothParentsAlive", "singleParent"}
TextFields == {"fullName", "disabilityNature", "level", "fatherName", "parentPhone", "otherProvider"}
NumberFields == {"tuition_fee", "amount_requested", "annual_family_income"}
FileFields == {"idFile", "guardianFile"}
Fields == TextFields \cup NumberFields \cup FileFields \cup RadioNames

Groups == {"parentInfoGroup", "parentalStatusGroup", "orphanNote", "disabilityDetails",
           "previousBursaryDetails", "previousBursaryDetailsContinued", "providerNote"}

\* type / tagName of each control
FieldType(f) ==
  CASE f \in RadioNames -> "radio"
    [] f \in NumberFields -> "number"
    [] f \in FileFields -> "file"
    [] f = "level" -> "select"
    [] f = "parentPhone" -> "tel"
    [] OTHER -> "text"

\* data-step of the .form-section that contains the control
FieldSection(f) ==
  CASE f \in {"fullName", "orphan", "disability", "previousBursary", "guardianFile", "disabilityNature"} -> 1
    [] f \in NumberFields -> 2
    [] f = "level" -> 3
    [] f = "idFile" -> 5
    [] OTHER -> 4

\* closest('.conditional') of the control, "none" when it has no such ancestor
FieldGroup(f) ==
  CASE f = "guardianFile" -> "orphanNote"
    [] f = "disabilityNature" -> "disabilityDetails"
    [] f \in {"fatherName", "parentPhone"} -> "parentInfoGroup"
    [] f \in {"bothParentsAlive", "singleParent"} -> "parentalStatusGroup"
    [] f = "otherProvider" -> "providerNote"
    [] OTHER -> "none"

GroupFields(g) == {f \in Fields : FieldGroup(f) = g}
SectionFields(step) == {f \in Fields : FieldSection(f) = step}

\* the required attribute as authored in the markup
AuthoredRequired(f) ==
  f \in {"fullName", "tuition_fee", "amount_requested", "level", "guardianFile",
         "disabilityNature", "fatherName", "otherProvider"}

\* navigation buttons: the section that contains the button and the step it asks for
NavButtons == {"toStep2", "backTo1", "toStep3", "backTo2", "toStep4", "backTo3", "toStep5", "backTo4"}
ButtonSection(b) ==
  CASE b = "toStep2" -> 1
    [] b \in {"backTo1", "toStep3"} -> 2
    [] b \in {"backTo2", "toStep4"} -> 3
    [] b \in {"backTo3", "toStep5"} -> 4
    [] OTHER -> 5

\* values a user can give to the controls
TextValues(f) == IF f = "fullName" THEN {"", " ", "x"} ELSE {"", "x"}
LevelValues == {"", "University"}
EditNumbers(f) ==
  CASE f = "tuition_fee" -> {<<>>, <<0>>, <<20>>}
    [] f = "amount_requested" -> {<<>>, <<1>>, <<2>>, <<21>>}
    [] OTHER -> {<<>>, <<201>>}

\* the program the page loads
Variants == {"static", "staticfiles1", "staticfiles2", "part000", "app"}

\* value attribute of the two options of every radio group: 'True' / 'False',
\* and 'Yes' / 'No' in the markup src/app.js is written for
Yes(v) == IF v = "app" THEN "Yes" ELSE "True"
No(v) == IF v = "app" THEN "No" ELSE "False"
RadioValues(v) == {Yes(v), No(v)}
CheckedValues == {"null", "True", "False", "Yes", "No"}

\* the conditional groups a program manages: only src/static/app.js knows the
\* two parent groups, for the other programs they are plain parts of section 4
ParentGroups == {"parentInfoGroup", "parentalStatusGroup"}
GroupOf(v, f) ==
  IF v # "static" /\ FieldGroup(f) \in ParentGroups THEN "none" ELSE FieldGroup(f)

\* the required attribute in the markup a program is written for: in the page of
\* src/app.js the file input and the provider field are optional
AuthoredRequiredIn(v, f) ==
  IF v = "app" THEN AuthoredRequired(f) /\ f \notin {"guardianFile", "otherProvider"}
  ELSE AuthoredRequired(f)

\* radio groups whose label carries class 'required', in document order
RadioOrder == <<"orphan", "disability", "previousBursary", "bothParentsAlive", "singleParent">>
RequiredRadio == {"orphan", "bothParentsAlive"}

\* fileIds of the submit handler of src/app.js that exist in the document
FileOrder == <<"idFile", "guardianFile">>

VARIABLES
  currentStep,        \* let currentStep
  checked,            \* per radio group: value of the checked option, "null" when none is
  show,               \* per conditional group: class 'show' present
  required,           \* per control: attribute required present
  originalRequired,   \* per control: dataset.originalRequired ("undefined" until recorded)
  value,              \* per text/select/tel control: its value
  number,             \* per number control: <<>> when empty, <<n>> otherwise
  files,              \* per file control: number of files selected
  isInvalid,          \* controls carrying class is-invalid (inline error displayed)
  errorShown,         \* errorMsg.style.display = 'block'
  successShown,       \* successMsg.style.display = 'block'
  submitDisabled,     \* submitBtn.disabled
  submitLabel,        \* submitBtn.textContent
  handedOff,          \* form.submit() was called
  pct,                \* progressFill width in percent
  activeSections,     \* sections with class active
  completedSections,  \* sections with class completed
  perfLabel,          \* text of the performance labels: "Term" or "Semester"
  variant,            \* the program the page loaded
  hasError,           \* radio groups whose form-group carries class has-error
  preview,            \* file inputs whose preview element shows a file name
  authored,           \* default values / checkedness of the markup (what form.reset() restores)
  pending,            \* src/app.js: submit handlers suspended in await fileToBase64(f)
  logged,             \* src/app.js: payloads handed off (console.log), in order
  chat,               \* src/static/app.js: the BursaryHelpChatbot object and its timers
  edits,              \* number of field edits the user can still make
  lastEv              \* what the last event did (history, not read by the handlers)

vars == <<currentStep, checked, show, required, originalRequired, value, number, files,
          isInvalid, errorShown, successShown, submitDisabled, submitLabel, handedOff,
          pct, activeSections, completedSections, perfLabel, variant, hasError, preview,
          authored, pending, logged, chat, edits, lastEv>>

\* the page state as one record
Cur ==
  [currentStep |-> currentStep, checked |-> checked, show |-> show, required |-> required,
   originalRequired |-> originalRequired, value |-> value, number |-> number, files |-> files,
   isInvalid |-> isInvalid, errorShown |-> errorShown, successShown |-> successShown,
   submitDisabled |-> submitDisabled, submitLabel |-> submitLabel, handedOff |-> handedOff,
   pct |-> pct, activeSections |-> activeSections, completedSections |-> completedSections,
   perfLabel |-> perfLabel, variant |-> variant, hasError |-> hasError, preview |-> preview,
   authored |-> authored, pending |-> pending, logged |-> logged, chat |-> chat]

Assign(s) ==
  /\ currentStep' = s.currentStep
  /\ checked' = s.checked
  /\ show' = s.show
  /\ required' = s.required
  /\ originalRequired' = s.originalRequired
  /\ value' = s.value
  /\ number' = s.number
  /\ files' = s.files
  /\ isInvalid' = s.isInvalid
  /\ errorShown' = s.errorShown
  /\ successShown' = s.successShown
  /\ submitDisabled' = s.submitDisabled
  /\ submitLabel' = s.submitLabel
  /\ handedOff' = s.handedOff
  /\ pct' = s.pct
  /\ activeSections' = s.activeSections
  /\ completedSections' = s.completedSections
  /\ perfLabel' = s.perfLabel
  /\ variant' = s.variant
  /\ hasError' = s.hasError
  /\ preview' = s.preview
  /\ authored' = s.authored
  /\ pending' = s.pending
  /\ logged' = s.logged
  /\ chat' = s.chat

\* the page is in state s (used by Init)
Holds(s) ==
  /\ currentStep = s.currentStep
  /\ checked = s.checked
  /\ show = s.show
  /\ required = s.required
  /\ originalRequired = s.originalRequired
  /\ value = s.value
  /\ number = s.number
  /\ files = s.files
  /\ isInvalid = s.isInvalid
  /\ errorShown = s.errorShown
  /\ successShown = s.successShown
  /\ submitDisabled = s.submitDisabled
  /\ submitLabel = s.submitLabel
  /\ handedOff = s.handedOff
  /\ pct = s.pct
  /\ activeSections = s.activeSections
  /\ completedSections = s.completedSections
  /\ perfLabel = s.perfLabel
  /\ variant = s.variant
  /\ hasError = s.hasError
  /\ preview = s.preview
  /\ authored = s.authored
  /\ pending = s.pending
  /\ logged = s.logged
  /\ chat = s.chat

\* The value x of a statement, computed once and handed to the statements F
\* that follow it.
Bind(x, F(_)) == CHOOSE r \in {F(y) : y \in {x}} : TRUE

\* ------------------------------------------------------ message functions
showError(s) == [s EXCEPT !.errorShown = TRUE, !.successShown = FALSE]

clearMessages(s) == [s EXCEPT !.errorShown = FALSE, !.successShown = FALSE]

\* ------------------------------------------------------ helper functions
setRadioDefault(s, name, val) ==
  IF s.checked[name] = "null" THEN [s EXCEPT !.checked[name] = val] ELSE s

getRadioValue(s, name) == s.checked[name]

\* a control of a hidden group is emptied: radios unchecked, select / textarea /
\* text / number set to ''; any other input type keeps its value
ClearedType(f) == FieldType(f) \in {"select", "text", "number"}

\* showHideConditional calling classList.toggle('show') without its second
\* argument: the class is flipped at every call
showHideConditionalFlipsClass(s, g, showIt) ==
  LET inG == GroupFields(g)
      orig == [f \in Fields |->
                 IF f \in inG /\ s.originalRequired[f] = "undefined"
                 THEN (IF s.required[f] THEN "true" ELSE "false")
                 ELSE s.originalRequired[f]]
  IN [s EXCEPT
        !.show[g] = ~s.show[g],
        !.originalRequired = orig,
        !.required = [f \in Fields |->
                        IF f \in inG THEN showIt /\ orig[f] = "true" ELSE s.required[f]],
        !.checked = [r \in RadioNames |->
                        IF r \in inG /\ ~showIt THEN "null" ELSE s.checked[r]],
        !.value = [f \in TextFields |->
                        IF f \in inG /\ ~showIt /\ ClearedType(f) THEN "" ELSE s.value[f]],
        !.number = [f \in NumberFields |->
                        IF f \in inG /\ ~showIt /\ ClearedType(f) THEN <<>> ELSE s.number[f]]]

\* showHideConditional capturing the original required state at every call
showHideConditionalRecaptures(s, g, showIt) ==
  LET inG == GroupFields(g)
      orig == [f \in Fields |->
                 IF f \in inG
                 THEN (IF s.required[f] THEN "true" ELSE "false")
                 ELSE s.originalRequired[f]]
  IN [s EXCEPT
        !.show[g] = showIt,
        !.originalRequired = orig,
        !.required = [f \in Fields |->
                        IF f \in inG THEN showIt /\ orig[f] = "true" ELSE s.required[f]],
        !.checked = [r \in RadioNames |->
                        IF r \in inG /\ ~showIt THEN "null" ELSE s.checked[r]],
        !.value = [f \in TextFields |->
                        IF f \in inG /\ ~showIt /\ ClearedType(f) THEN "" ELSE s.value[f]],
        !.number = [f \in NumberFields |->
                        IF f \in inG /\ ~showIt /\ ClearedType(f) THEN <<>> ELSE s.number[f]]]

showHideConditional(s, g, showIt) ==
  LET inG == GroupFields(g)
      orig == [f \in Fields |->
                 IF f \in inG /\ s.originalRequired[f] = "undefined"
                 THEN (IF s.required[f] THEN "true" ELSE "false")
                 ELSE s.originalRequired[f]]
  IN [s EXCEPT
        !.show[g] = showIt,
        !.originalRequired = orig,
        !.required = [f \in Fields |->
                        IF f \in inG THEN showIt /\ orig[f] = "true" ELSE s.required[f]],
        !.checked = [r \in RadioNames |->
                        IF r \in inG /\ ~showIt THEN "null" ELSE s.checked[r]],
        !.value = [f \in TextFields |->
                        IF f \in inG /\ ~showIt /\ ClearedType(f) THEN "" ELSE s.value[f]],
        !.number = [f \in NumberFields |->
                        IF f \in inG /\ ~showIt /\ ClearedType(f) THEN <<>> ELSE s.number[f]]]

\* handleConditionalFields with the continuation block driven by the wrong radio
handleConditionalFieldsWrongRadio(s) ==
  LET isOrphan == s.checked["orphan"] = "True"
      hasDisability == s.checked["disability"] = "True"
      previousBursary == s.checked["previousBursary"] = "True"
      singleParent == s.checked["singleParent"] = "True"
      showParentInfo == ~isOrphan
      s1 == showHideConditional(s, "parentInfoGroup", showParentInfo)
      s2 == showHideConditional(s1, "parentalStatusGroup", showParentInfo)
      s3 == showHideConditional(s2, "orphanNote", isOrphan)
      s4 == showHideConditional(s3, "disabilityDetails", hasDisability)
      s5 == showHideConditional(s4, "previousBursaryDetails", previousBursary)
      s6 == showHideConditional(s5, "previousBursaryDetailsContinued", hasDisability)
  IN showHideConditional(s6, "providerNote", isOrphan \/ ~showParentInfo \/ singleParent)

\* the rule of the provider note, from the values read at the top of handleConditionalFields
needsProviderNote(isOrphan, showParentInfo, bothParentsAlive, singleParent) ==
  isOrphan \/ ~showParentInfo \/ singleParent

\* handleConditionalFields with the first previous-bursary block also shown for a disability
handleConditionalFieldsCoupled(s) ==
  LET isOrphan == getRadioValue(s, "orphan") = "True"
      hasDisability == getRadioValue(s, "disability") = "True"
      previousBursary == getRadioValue(s, "previousBursary") = "True"
      bothParentsAlive == getRadioValue(s, "bothParentsAlive") = "True"
      singleParent == getRadioValue(s, "singleParent") = "True"
      showParentInfo == ~isOrphan
      s1 == showHideConditional(s, "parentInfoGroup", showParentInfo)
      s2 == showHideConditional(s1, "parentalStatusGroup", showParentInfo)
      s3 == showHideConditional(s2, "orphanNote", isOrphan)
      s4 == showHideConditional(s3, "disabilityDetails", hasDisability)
      s5 == showHideConditional(s4, "previousBursaryDetails", previousBursary \/ hasDisability)
      s6 == showHideConditional(s5, "previousBursaryDetailsContinued", previousBursary)
  IN showHideConditional(s6, "providerNote",
        needsProviderNote(isOrphan, showParentInfo, bothParentsAlive, singleParent))

handleConditionalFields(s) ==
  LET isOrphan == getRadioValue(s, "orphan") = "True"
      hasDisability == getRadioValue(s, "disability") = "True"
      previousBursary == getRadioValue(s, "previousBursary") = "True"
      bothParentsAlive == getRadioValue(s, "bothParentsAlive") = "True"
      singleParent == getRadioValue(s, "singleParent") = "True"
      showParentInfo == ~isOrphan
      s1 == showHideConditional(s, "parentInfoGroup", showParentInfo)
      s2 == showHideConditional(s1, "parentalStatusGroup", showParentInfo)
      s3 == showHideConditional(s2, "orphanNote", isOrphan)
      s4 == showHideConditional(s3, "disabilityDetails", hasDisability)
      s5 == showHideConditional(s4, "previousBursaryDetails", previousBursary)
      s6 == showHideConditional(s5, "previousBursaryDetailsContinued", previousBursary)
  IN showHideConditional(s6, "providerNote",
        needsProviderNote(isOrphan, showParentInfo, bothParentsAlive, singleParent))

handleInstitutionLabels(s) ==
  [s EXCEPT !.perfLabel = IF s.value["level"] = "University" THEN "Semester" ELSE "Term"]

\* ---------------------------------------------------- navigation functions
\* Math.round((currentStep - 1) / (totalSteps - 1) * 100); the quotient is
\* not negative, so rounding is floor(x + 1/2)
ProgressPct(step) == (200 * (step - 1) + (totalSteps - 1)) \div (2 * (totalSteps - 1))

\* updateProgress that also marks the section displayed as completed
updateProgressCompletesCurrent(s) ==
  [s EXCEPT !.pct = ProgressPct(s.currentStep),
            !.activeSections = {k \in 1..totalSteps : k = s.currentStep},
            !.completedSections = {k \in 1..totalSteps : k <= s.currentStep}]

updateProgress(s) ==
  [s EXCEPT !.pct = ProgressPct(s.currentStep),
            !.activeSections = {k \in 1..totalSteps : k = s.currentStep},
            !.completedSections = {k \in 1..totalSteps : k < s.currentStep}]

\* ---------------------------------------------------- validation functions
\* el.value.trim() === '' for the kinds of control of the document
Trim(v) == IF v = " " THEN "" ELSE v

IsBlank(s, el) ==
  CASE el \in TextFields -> Trim(s.value[el]) = ""
    [] el \in NumberFields -> s.number[el] = <<>>
    [] el \in FileFields -> s.files[el] = 0
    [] OTHER -> FALSE   \* a radio input always has its value attribute

\* parseFloat(el.value || 0) of a number control
ParseFloat(v) == IF v = <<>> THEN 0 ELSE v[1]

InHiddenGroup(s, el) ==
  GroupOf(s.variant, el) # "none" /\ ~s.show[GroupOf(s.variant, el)]

\* the amount rule of validateField (only for el.id === 'amount_requested')
AmountExceeds(s) ==
  LET tuitionFee == ParseFloat(s.number["tuition_fee"])
      amountRequested == ParseFloat(s.number["amount_requested"])
  IN amountRequested > tuitionFee /\ tuitionFee > 0

\* validateField that tests every control the markup authored required, shown
\* or not
validateFieldAuthoredRequired(s, el) ==
  IF AuthoredRequired(el) /\ FieldType(el) = "file" /\ s.files[el] = 0 THEN FALSE
  ELSE IF AuthoredRequired(el) /\ IsBlank(s, el) THEN FALSE
  ELSE IF el = "amount_requested" /\ AmountExceeds(s) THEN FALSE
  ELSE TRUE

\* validateField that compares the value with '' without trimming it
validateFieldNoTrim(s, el) ==
  IF InHiddenGroup(s, el) THEN TRUE
  ELSE IF s.required[el] /\ FieldType(el) = "file" /\ s.files[el] = 0 THEN FALSE
  ELSE IF s.required[el] /\ el \in TextFields /\ s.value[el] = "" THEN FALSE
  ELSE IF s.required[el] /\ el \in NumberFields /\ s.number[el] = <<>> THEN FALSE
  ELSE IF el = "amount_requested" /\ AmountExceeds(s) THEN FALSE
  ELSE TRUE

\* return value of validateField(el)
validateField(s, el) ==
  IF InHiddenGroup(s, el) THEN TRUE
  ELSE IF s.required[el] /\ FieldType(el) = "file" /\ s.files[el] = 0 THEN FALSE
  ELSE IF s.required[el] /\ IsBlank(s, el) THEN FALSE
  ELSE IF el = "amount_requested" /\ AmountExceeds(s) THEN FALSE
  ELSE TRUE

\* page after validateField(el): clearErrorForField, then showErrorForField on failure
AfterValidateField(s, el) ==
  [s EXCEPT !.isInvalid = IF validateField(s, el) THEN @ \ {el} ELSE @ \cup {el}]

\* return value of validateStep(step): the declaration at lines 417-445 replaces
\* the one at lines 220-278 (function declarations of one scope, the last one wins)
validateStep(s, step) ==
  IF step \notin 1..totalSteps THEN FALSE
  ELSE \A el \in SectionFields(step) : validateField(s, el)

\* page after a validateStep that stops at the first control that fails
AfterValidateStepFirstFailure(s, step) ==
  IF step \notin 1..totalSteps THEN s
  ELSE Bind({el \in SectionFields(step) : ~validateField(s, el)}, LAMBDA failed :
         IF failed = {}
         THEN [s EXCEPT !.isInvalid = (@ \ SectionFields(step)) \cup failed]
         ELSE showError([s EXCEPT !.isInvalid = (@ \ SectionFields(step))
                                                  \cup {CHOOSE el \in failed : TRUE}]))

\* page after validateStep(step)
AfterValidateStep(s, step) ==
  IF step \notin 1..totalSteps THEN s
  ELSE Bind({el \in SectionFields(step) : ~validateField(s, el)}, LAMBDA failed :
         IF failed = {}
         THEN [s EXCEPT !.isInvalid = (@ \ SectionFields(step)) \cup failed]
         ELSE showError([s EXCEPT !.isInvalid = (@ \ SectionFields(step)) \cup failed]))

\* validateFinancialFields(): ans.low and ans.income are the answers the user
\* gives to the two confirm() dialogs if they are asked.  The amounts of the
\* document are whole numbers, for which amountRequested < tuitionFee * 0.1 and
\* annualIncome > tuitionFee * 10 in double arithmetic equal the integer
\* comparisons below.
\* the hard rules without the upper limit on the amount
FinHardFailNoUpperLimit(tuitionFee, amountRequested) ==
  tuitionFee <= 0 \/ amountRequested <= 0

FinHardFail(tuitionFee, amountRequested) ==
  tuitionFee <= 0 \/ amountRequested <= 0 \/ amountRequested > tuitionFee

\* the low-amount rule with the boundary included
FinAskLowInclusive(tuitionFee, amountRequested) == 10 * amountRequested <= tuitionFee

FinAskLow(tuitionFee, amountRequested) == 10 * amountRequested < tuitionFee

\* the income rule with a factor of one hundred
FinAskIncomeHundredfold(tuitionFee, annualIncome) == annualIncome > tuitionFee * 100

FinAskIncome(tuitionFee, annualIncome) == annualIncome > tuitionFee * 10

\* result: ok is the return value, asked the dialogs shown, in order, and
\* accepted the answer given to each of them
FinResult(annualIncome, tuitionFee, amountRequested, ans) ==
  IF FinHardFail(tuitionFee, amountRequested)
  THEN [ok |-> FALSE, asked |-> <<>>, accepted |-> <<>>]
  ELSE IF FinAskLow(tuitionFee, amountRequested) /\ ~ans.low
  THEN [ok |-> FALSE, asked |-> <<"low">>, accepted |-> <<FALSE>>]
  ELSE LET first == IF FinAskLow(tuitionFee, amountRequested) THEN <<"low">> ELSE <<>>
           firstAns == IF FinAskLow(tuitionFee, amountRequested) THEN <<TRUE>> ELSE <<>>
       IN IF FinAskIncome(tuitionFee, annualIncome)
          THEN [ok |-> ans.income, asked |-> Append(first, "income"),
                accepted |-> Append(firstAns, ans.income)]
          ELSE [ok |-> TRUE, asked |-> first, accepted |-> firstAns]

validateFinancialFields(s, ans) ==
  FinResult(ParseFloat(s.number["annual_family_income"]),
            ParseFloat(s.number["tuition_fee"]),
            ParseFloat(s.number["amount_requested"]), ans)

\* page after validateFinancialFields(): only the hard rules call showError
AfterFinancial(s) ==
  IF FinHardFail(ParseFloat(s.number["tuition_fee"]), ParseFloat(s.number["amount_requested"]))
  THEN showError(s) ELSE s

\* ------------------------------------------------------------- goToStep
\* goToStep without the forward gate
goToStepUngated(s, n, ans) ==
  clearMessages(updateProgress([s EXCEPT !.currentStep = n]))

\* goToStep without the additional validation for step 2
goToStepNoFinancial(s, n, ans) ==
  IF n > s.currentStep
  THEN Bind(AfterValidateStep(s, s.currentStep), LAMBDA s1 :
         IF ~validateStep(s, s.currentStep) THEN s1
         ELSE clearMessages(updateProgress([s1 EXCEPT !.currentStep = n])))
  ELSE clearMessages(updateProgress([s EXCEPT !.currentStep = n]))

\* goToStep without the final clearMessages()
goToStepKeepsMessages(s, n, ans) ==
  IF n > s.currentStep
  THEN Bind(AfterValidateStep(s, s.currentStep), LAMBDA s1 :
         IF ~validateStep(s, s.currentStep) THEN s1
         ELSE IF s.currentStep = 2
         THEN Bind(AfterFinancial(s1), LAMBDA s2 :
                IF ~validateFinancialFields(s1, ans).ok THEN s2
                ELSE updateProgress([s2 EXCEPT !.currentStep = n]))
         ELSE updateProgress([s1 EXCEPT !.currentStep = n]))
  ELSE updateProgress([s EXCEPT !.currentStep = n])

\* s1 is the page after validateStep(currentStep), s2 the page after
\* validateFinancialFields()
goToStep(s, n, ans) ==
  IF n > s.currentStep
  THEN Bind(AfterValidateStep(s, s.currentStep), LAMBDA s1 :
         IF ~validateStep(s, s.currentStep) THEN s1
         ELSE IF s.currentStep = 2
         THEN Bind(AfterFinancial(s1), LAMBDA s2 :
                IF ~validateFinancialFields(s1, ans).ok THEN s2
                ELSE clearMessages(updateProgress([s2 EXCEPT !.currentStep = n])))
         ELSE clearMessages(updateProgress([s1 EXCEPT !.currentStep = n])))
  ELSE clearMessages(updateProgress([s EXCEPT !.currentStep = n]))

\* what a call goToStep(n) did, for the history variable
NoLog == [kind |-> "none", n |-> 0, from |-> 0, ranValidate |-> FALSE, valid |-> FALSE,
          ranFin |-> FALSE, finOk |-> FALSE, asked |-> <<>>, accepted |-> <<>>,
          failStep |-> 0]

GoToStepLog(s, n, ans, kind, failStep) ==
  Bind(n > s.currentStep /\ validateStep(s, s.currentStep), LAMBDA ok :
    Bind(validateFinancialFields(s, ans), LAMBDA res :
      LET fin == ok /\ s.currentStep = 2
      IN [kind |-> kind, n |-> n, from |-> s.currentStep,
          ranValidate |-> n > s.currentStep, valid |-> ok,
          ranFin |-> fin, finOk |-> fin /\ res.ok,
          asked |-> IF fin THEN res.asked ELSE <<>>,
          accepted |-> IF fin THEN res.accepted ELSE <<>>, failStep |-> failStep]))

Answers == [low : BOOLEAN, income : BOOLEAN]

\* ============================================ the other four programs
\* ---------------------------------------------- conditional visibility
\* showHideConditional of src/staticfiles/app.js (lines 67-85): the class and
\* the required attributes, no value is cleared
\* showHideConditional that leaves the required attribute on the fields of a
\* group it hides
showHideConditionalKeepsRequired_sf1(s, g, showIt) ==
  LET inG == GroupFields(g)
      orig == [f \in Fields |->
                 IF f \in inG /\ s.originalRequired[f] = "undefined"
                 THEN (IF s.required[f] THEN "true" ELSE "false")
                 ELSE s.originalRequired[f]]
  IN [s EXCEPT
        !.show[g] = showIt,
        !.originalRequired = orig,
        !.required = [f \in Fields |->
                        IF f \in inG THEN orig[f] = "true" ELSE s.required[f]]]

showHideConditional_sf1(s, g, showIt) ==
  LET inG == GroupFields(g)
      orig == [f \in Fields |->
                 IF f \in inG /\ s.originalRequired[f] = "undefined"
                 THEN (IF s.required[f] THEN "true" ELSE "false")
                 ELSE s.originalRequired[f]]
  IN [s EXCEPT
        !.show[g] = showIt,
        !.originalRequired = orig,
        !.required = [f \in Fields |->
                        IF f \in inG THEN showIt /\ orig[f] = "true" ELSE s.required[f]]]

handleConditionalFields_sf1(s) ==
  LET isOrphan == getRadioValue(s, "orphan") = "True"
      hasDisability == getRadioValue(s, "disability") = "True"
      previousBursary == getRadioValue(s, "previousBursary") = "True"
      bothParentsAlive == getRadioValue(s, "bothParentsAlive") = "True"
      singleParent == getRadioValue(s, "singleParent") = "True"
      s1 == showHideConditional_sf1(s, "orphanNote", isOrphan)
      s2 == showHideConditional_sf1(s1, "disabilityDetails", hasDisability)
      s3 == showHideConditional_sf1(s2, "previousBursaryDetails", previousBursary)
      s4 == showHideConditional_sf1(s3, "previousBursaryDetailsContinued", previousBursary)
      needsProviderNote_sf1 == isOrphan \/ ~bothParentsAlive \/ singleParent
  IN showHideConditional_sf1(s4, "providerNote", needsProviderNote_sf1)

\* src/unnamed/part_000, lines 74-92: the same statements as lines 67-85 of
\* src/staticfiles/app.js
showHideConditional_p0(s, g, showIt) == showHideConditional_sf1(s, g, showIt)

\* src/unnamed/part_000, lines 94-110
handleConditionalFields_p0(s) ==
  LET isOrphan == getRadioValue(s, "orphan") = "True"
      hasDisability == getRadioValue(s, "disability") = "True"
      previousBursary == getRadioValue(s, "previousBursary") = "True"
      bothParentsAlive == getRadioValue(s, "bothParentsAlive") = "True"
      singleParent == getRadioValue(s, "singleParent") = "True"
      s1 == showHideConditional_p0(s, "orphanNote", isOrphan)
      s2 == showHideConditional_p0(s1, "disabilityDetails", hasDisability)
      s3 == showHideConditional_p0(s2, "previousBursaryDetails", previousBursary)
      s4 == showHideConditional_p0(s3, "previousBursaryDetailsContinued", previousBursary)
      needsProviderNote_p0 == isOrphan \/ ~bothParentsAlive \/ singleParent
  IN showHideConditional_p0(s4, "providerNote", needsProviderNote_p0)

\* src/staticfiles/app.js, lines 404-424 (showHide): a null second argument of
\* classList.toggle counts as false
showHide_sf2(s, g, showIt) == showHideConditional_sf1(s, g, showIt)

\* src/staticfiles/app.js, lines 395-436: the states are the checked 'True'
\* options (an element or null), used as truth values
handleConditionalFields_sf2(s) ==
  LET isOrphan == s.checked["orphan"] = "True"
      hasDisability == s.checked["disability"] = "True"
      previousBursary == s.checked["previousBursary"] = "True"
      bothParentsAlive == s.checked["bothParentsAlive"] = "True"
      singleParent == s.checked["singleParent"] = "True"
      s1 == showHide_sf2(s, "orphanNote", isOrphan)
      needsProviderNote_sf2 == isOrphan \/ ~bothParentsAlive \/ singleParent
      s2 == showHide_sf2(s1, "providerNote", needsProviderNote_sf2)
      s3 == showHide_sf2(s2, "disabilityDetails", hasDisability)
      s4 == showHide_sf2(s3, "previousBursaryDetails", previousBursary)
  IN showHide_sf2(s4, "previousBursaryDetailsContinued", previousBursary)

\* src/app.js, lines 28-51: the change listener of the radio input with name
\* `name` and value `val`; show[g] stands for style.display = 'block'.  With no
\* orphan option checked the read of .value at line 45 throws and the listener
\* ends there.
radioChange_app(s, name, val) ==
  CASE name = "orphan" ->
         [s EXCEPT !.show["orphanNote"] = (val = "Yes"), !.show["providerNote"] = (val = "Yes")]
    [] name = "disability" ->
         [s EXCEPT !.show["disabilityDetails"] = (val = "Yes")]
    [] name = "previousBursary" ->
         [s EXCEPT !.show["previousBursaryDetails"] = (val = "Yes"),
                   !.show["previousBursaryDetailsContinued"] = (val = "Yes")]
    [] name = "bothParentsAlive" ->
         IF val = "No" THEN [s EXCEPT !.show["providerNote"] = TRUE]
         ELSE IF s.checked["orphan"] = "null" THEN s
         ELSE IF s.checked["orphan"] = "No" THEN [s EXCEPT !.show["providerNote"] = FALSE]
         ELSE s
    [] OTHER -> s

\* ------------------------------------------------------------ validateStep
\* first loop of validateStep: the controls with the required attribute that
\* fail; skipHidden is the test of lines 180-183 of src/staticfiles/app.js
RequiredFailing(s, step, skipHidden) ==
  {el \in SectionFields(step) :
     s.required[el] /\ ~(skipHidden /\ InHiddenGroup(s, el)) /\ IsBlank(s, el)}

\* groupDiv.offsetParent !== null: the section of the group is the one displayed
\* and the group is not inside a conditional block that is hidden
RadioVisible(s, r) == FieldSection(r) = s.currentStep /\ ~InHiddenGroup(s, r)

\* second loop of validateStep: the visible radio groups of the section with a
\* label.required, in document order, up to the first one without a checked option
RadioResult(s, step) ==
  Bind(SelectSeq(RadioOrder,
         LAMBDA r : FieldSection(r) = step /\ r \in RequiredRadio /\ RadioVisible(s, r)),
       LAMBDA seq :
         Bind({k \in 1..Len(seq) : s.checked[seq[k]] = "null"}, LAMBDA bad :
           LET first == IF bad = {} THEN 0 ELSE CHOOSE k \in bad : \A j \in bad : k <= j
               last == IF bad = {} THEN Len(seq) ELSE first - 1
           IN [ok |-> bad = {}, passed |-> {seq[k] : k \in 1..last},
               failed |-> IF bad = {} THEN {} ELSE {seq[first]}]))

\* page after the two loops: the first failure ends the function with showError
AfterStepLoops(s, step, skipHidden, withRadio) ==
  IF RequiredFailing(s, step, skipHidden) # {} THEN showError(s)
  ELSE IF ~withRadio THEN clearMessages(s)
  ELSE Bind(RadioResult(s, step), LAMBDA r :
         IF r.ok THEN clearMessages([s EXCEPT !.hasError = (@ \ r.passed) \cup r.failed])
         ELSE showError([s EXCEPT !.hasError = (@ \ r.passed) \cup r.failed]))

\* src/staticfiles/app.js, lines 171-228
validateStep_sf1(s, step) ==
  /\ step \in 1..totalSteps
  /\ RequiredFailing(s, step, TRUE) = {}
  /\ RadioResult(s, step).ok

AfterValidateStep_sf1(s, step) ==
  IF step \notin 1..totalSteps THEN s ELSE AfterStepLoops(s, step, TRUE, TRUE)

\* src/unnamed/part_000, lines 165-214: no test for hidden groups
validateStep_p0(s, step) ==
  /\ step \in 1..totalSteps
  /\ RequiredFailing(s, step, FALSE) = {}
  /\ RadioResult(s, step).ok

AfterValidateStep_p0(s, step) ==
  IF step \notin 1..totalSteps THEN s ELSE AfterStepLoops(s, step, FALSE, TRUE)

\* src/staticfiles/app.js, lines 522-571: called with steps 1..totalSteps only
validateStep_sf2(s, step) ==
  /\ step \in 1..totalSteps
  /\ RequiredFailing(s, step, FALSE) = {}
  /\ RadioResult(s, step).ok

AfterValidateStep_sf2(s, step) ==
  IF step \notin 1..totalSteps THEN s ELSE AfterStepLoops(s, step, FALSE, TRUE)

\* src/app.js, lines 129-152: the required controls only
validateStep_app(s, step) ==
  /\ step \in 1..totalSteps
  /\ RequiredFailing(s, step, FALSE) = {}

AfterValidateStep_app(s, step) ==
  IF step \notin 1..totalSteps THEN s ELSE AfterStepLoops(s, step, FALSE, FALSE)

\* the validateStep of the program loaded
ValidateStepOf(s, step) ==
  CASE s.variant = "static" -> validateStep(s, step)
    [] s.variant = "staticfiles1" -> validateStep_sf1(s, step)
    [] s.variant = "staticfiles2" -> validateStep_sf2(s, step)
    [] s.variant = "part000" -> validateStep_p0(s, step)
    [] OTHER -> validateStep_app(s, step)

AfterValidateStepOf(s, step) ==
  CASE s.variant = "static" -> AfterValidateStep(s, step)
    [] s.variant = "staticfiles1" -> AfterValidateStep_sf1(s, step)
    [] s.variant = "staticfiles2" -> AfterValidateStep_sf2(s, step)
    [] s.variant = "part000" -> AfterValidateStep_p0(s, step)
    [] OTHER -> AfterValidateStep_app(s, step)

\* ------------------------------------------------- validateFinancialFields
\* src/staticfiles/app.js, lines 230-268: the statements of src/static/app.js
validateFinancialFields_sf1(s, ans) == validateFinancialFields(s, ans)

AfterFinancial_sf1(s) == AfterFinancial(s)

\* src/unnamed/part_000, lines 221-231 and src/staticfiles/app.js, lines
\* 580-591: no rule for amountRequested <= 0
FinHardFail_p0(tuitionFee, amountRequested) ==
  tuitionFee <= 0 \/ amountRequested > tuitionFee

FinResult_p0(annualIncome, tuitionFee, amountRequested, ans) ==
  IF FinHardFail_p0(tuitionFee, amountRequested)
  THEN [ok |-> FALSE, asked |-> <<>>, accepted |-> <<>>]
  ELSE IF FinAskLow(tuitionFee, amountRequested) /\ ~ans.low
  THEN [ok |-> FALSE, asked |-> <<"low">>, accepted |-> <<FALSE>>]
  ELSE LET first == IF FinAskLow(tuitionFee, amountRequested) THEN <<"low">> ELSE <<>>
           firstAns == IF FinAskLow(tuitionFee, amountRequested) THEN <<TRUE>> ELSE <<>>
       IN IF FinAskIncome(tuitionFee, annualIncome)
          THEN [ok |-> ans.income, asked |-> Append(first, "income"),
                accepted |-> Append(firstAns, ans.income)]
          ELSE [ok |-> TRUE, asked |-> first, accepted |-> firstAns]

\* src/unnamed/part_000, lines 216-248
validateFinancialFields_p0(s, ans) ==
  FinResult_p0(ParseFloat(s.number["annual_family_income"]),
               ParseFloat(s.number["tuition_fee"]),
               ParseFloat(s.number["amount_requested"]), ans)

AfterFinancial_p0(s) ==
  IF FinHardFail_p0(ParseFloat(s.number["tuition_fee"]), ParseFloat(s.number["amount_requested"]))
  THEN showError(s) ELSE s

\* src/staticfiles/app.js, lines 574-610: the statements of src/unnamed/part_000
validateFinancialFields_sf2(s, ans) == validateFinancialFields_p0(s, ans)

AfterFinancial_sf2(s) == AfterFinancial_p0(s)

\* ------------------------------------------------------------- goToStep
\* src/staticfiles/app.js, lines 141-158
goToStep_sf1(s, n, ans) ==
  IF n > s.currentStep
  THEN Bind(AfterValidateStep_sf1(s, s.currentStep), LAMBDA s1 :
         IF ~validateStep_sf1(s, s.currentStep) THEN s1
         ELSE IF s.currentStep = 2
         THEN Bind(AfterFinancial_sf1(s1), LAMBDA s2 :
                IF ~validateFinancialFields_sf1(s1, ans).ok THEN s2
                ELSE clearMessages(updateProgress([s2 EXCEPT !.currentStep = n])))
         ELSE clearMessages(updateProgress([s1 EXCEPT !.currentStep = n])))
  ELSE clearMessages(updateProgress([s EXCEPT !.currentStep = n]))

\* src/unnamed/part_000, lines 141-148
goToStep_p0(s, n) ==
  IF n > s.currentStep
  THEN Bind(AfterValidateStep_p0(s, s.currentStep), LAMBDA s1 :
         IF ~validateStep_p0(s, s.currentStep) THEN s1
         ELSE updateProgress([s1 EXCEPT !.currentStep = n]))
  ELSE updateProgress([s EXCEPT !.currentStep = n])

\* src/staticfiles/app.js, lines 481-489
goToStep_sf2(s, n) ==
  IF n > s.currentStep
  THEN Bind(AfterValidateStep_sf2(s, s.currentStep), LAMBDA s1 :
         IF ~validateStep_sf2(s, s.currentStep) THEN s1
         ELSE updateProgress([s1 EXCEPT !.currentStep = n]))
  ELSE updateProgress([s EXCEPT !.currentStep = n])

\* goToStep of src/app.js with the validation run for every target
goToStepAlwaysValidates_app(s, n) ==
  Bind(AfterValidateStep_app(s, s.currentStep), LAMBDA s1 :
    IF ~validateStep_app(s, s.currentStep) THEN s1
    ELSE updateProgress([s1 EXCEPT !.currentStep = n]))

\* src/app.js, lines 88-96
goToStep_app(s, n) ==
  IF n > s.currentStep
  THEN Bind(AfterValidateStep_app(s, s.currentStep), LAMBDA s1 :
         IF ~validateStep_app(s, s.currentStep) THEN s1
         ELSE updateProgress([s1 EXCEPT !.currentStep = n]))
  ELSE updateProgress([s EXCEPT !.currentStep = n])

\* the goToStep of the program loaded
GoToStepOf(s, n, ans) ==
  CASE s.variant = "static" -> goToStep(s, n, ans)
    [] s.variant = "staticfiles1" -> goToStep_sf1(s, n, ans)
    [] s.variant = "staticfiles2" -> goToStep_sf2(s, n)
    [] s.variant = "part000" -> goToStep_p0(s, n)
    [] OTHER -> goToStep_app(s, n)

\* what a call goToStep(n) of the program loaded did
GoToStepLogOf(s, n, ans, kind, failStep) ==
  Bind(n > s.currentStep /\ ValidateStepOf(s, s.currentStep), LAMBDA ok :
    Bind(validateFinancialFields(s, ans), LAMBDA res :
      LET fin == ok /\ s.currentStep = 2 /\ s.variant \in {"static", "staticfiles1"}
      IN [kind |-> kind, n |-> n, from |-> s.currentStep,
          ranValidate |-> n > s.currentStep, valid |-> ok,
          ranFin |-> fin, finOk |-> fin /\ res.ok,
          asked |-> IF fin THEN res.asked ELSE <<>>,
          accepted |-> IF fin THEN res.accepted ELSE <<>>, failStep |-> failStep]))

\* ------------------------------------------------ click on toStep3
\* src/unnamed/part_000, lines 153-157
toStep3Listener_p0(s, ans) ==
  Bind(AfterValidateStep_p0(s, 2), LAMBDA s1 :
    IF ~validateStep_p0(s, 2) THEN s1
    ELSE Bind(AfterFinancial_p0(s1), LAMBDA s2 :
           IF ~validateFinancialFields_p0(s1, ans).ok THEN s2
           ELSE goToStep_p0(s2, 3)))

\* src/staticfiles/app.js: the listener of line 450, then the one of lines 613-617
toStep3Listeners_sf2(s, ans) ==
  Bind(goToStep_sf2(s, 3), LAMBDA s0 :
    Bind(AfterValidateStep_sf2(s0, 2), LAMBDA s1 :
      IF ~validateStep_sf2(s0, 2) THEN s1
      ELSE Bind(AfterFinancial_sf2(s1), LAMBDA s2 :
             IF ~validateFinancialFields_sf2(s1, ans).ok THEN s2
             ELSE goToStep_sf2(s2, 3))))

\* what the click on toStep3 did in these two programs
ToStep3Log(s, ans) ==
  Bind(IF s.variant = "staticfiles2" THEN goToStep_sf2(s, 3) ELSE s, LAMBDA s0 :
    Bind(ValidateStepOf(s0, 2), LAMBDA fin :
      Bind(validateFinancialFields_p0(s0, ans), LAMBDA res :
        [kind |-> "click", n |-> 3, from |-> s.currentStep, ranValidate |-> TRUE,
         valid |-> ValidateStepOf(s, 2),
         ranFin |-> fin, finOk |-> fin /\ res.ok,
         asked |-> IF fin THEN res.asked ELSE <<>>,
         accepted |-> IF fin THEN res.accepted ELSE <<>>, failStep |-> 0])))

\* ------------------------------------------------------ keydown (Enter)
\* the keydown listener without the test currentStep < totalSteps
keydownUnguarded_app(s) ==
  [page |-> goToStep_app(s, s.currentStep + 1), prevented |-> TRUE]

\* src/app.js, lines 277-282: page after the listener, and whether it called
\* preventDefault (when it did not, the key has its default action)
keydown_app(s) ==
  IF s.currentStep < totalSteps
  THEN [page |-> goToStep_app(s, s.currentStep + 1), prevented |-> TRUE]
  ELSE [page |-> s, prevented |-> FALSE]

\* src/staticfiles/app.js, lines 697-702
keydown_sf2(s) ==
  IF s.currentStep < totalSteps
  THEN [page |-> goToStep_sf2(s, s.currentStep + 1), prevented |-> TRUE]
  ELSE [page |-> s, prevented |-> FALSE]

\* src/unnamed/part_000, lines 343-352; the focused control is an input or a
\* select (the document has no textarea)
keydown_p0(s) ==
  IF s.currentStep < totalSteps
  THEN [page |-> goToStep_p0(s, s.currentStep + 1), prevented |-> TRUE]
  ELSE [page |-> s, prevented |-> FALSE]

\* ------------------------------------------------------ submit listeners
\* the loop `for (let s = 1; s <= totalSteps; s++) if (!validateStep(s))` of the
\* program loaded, started at step k
RECURSIVE ValidateAll(_, _)
ValidateAll(s, k) ==
  IF k > totalSteps THEN [failing |-> 0, page |-> s]
  ELSE IF ~ValidateStepOf(s, k) THEN [failing |-> k, page |-> AfterValidateStepOf(s, k)]
  ELSE ValidateAll(AfterValidateStepOf(s, k), k + 1)

\* src/staticfiles/app.js, lines 315-339
submitHandler_sf1(s, ans) ==
  Bind(ValidateAll(s, 1), LAMBDA loop :
    IF loop.failing # 0
    THEN [showError(goToStep_sf1(loop.page, loop.failing, ans))
            EXCEPT !.submitDisabled = FALSE, !.submitLabel = "Submit Application"]
    ELSE [loop.page EXCEPT !.submitDisabled = TRUE, !.submitLabel = "Submitting...",
                           !.handedOff = TRUE])

\* the submit listener of src/unnamed/part_000 without the call goToStep(s) for
\* the failing step
submitHandler_p0NoReroute(s) ==
  IF ~validateStep_p0(s, s.currentStep) THEN AfterValidateStep_p0(s, s.currentStep)
  ELSE Bind(ValidateAll(AfterValidateStep_p0(s, s.currentStep), 1), LAMBDA loop :
         IF loop.failing # 0
         THEN [showError(loop.page) EXCEPT !.submitDisabled = FALSE]
         ELSE [loop.page EXCEPT !.submitDisabled = TRUE, !.submitLabel = "Submitting...",
                                !.handedOff = TRUE])

\* src/unnamed/part_000, lines 294-317: without preventDefault the native
\* submission of the form follows the listener
submitHandler_p0(s) ==
  IF ~validateStep_p0(s, s.currentStep) THEN AfterValidateStep_p0(s, s.currentStep)
  ELSE Bind(ValidateAll(AfterValidateStep_p0(s, s.currentStep), 1), LAMBDA loop :
         IF loop.failing # 0
         THEN [showError(goToStep_p0(loop.page, loop.failing)) EXCEPT !.submitDisabled = FALSE]
         ELSE [loop.page EXCEPT !.submitDisabled = TRUE, !.submitLabel = "Submitting...",
                                !.handedOff = TRUE])

\* src/staticfiles/app.js, lines 647-681
submitHandler_sf2(s) ==
  IF ~validateStep_sf2(s, s.currentStep) THEN AfterValidateStep_sf2(s, s.currentStep)
  ELSE Bind(ValidateAll(AfterValidateStep_sf2(s, s.currentStep), 1), LAMBDA loop :
         IF loop.failing # 0
         THEN [showError(goToStep_sf2(loop.page, loop.failing)) EXCEPT !.submitDisabled = FALSE]
         ELSE [loop.page EXCEPT !.submitDisabled = TRUE, !.handedOff = TRUE])

\* ---- src/app.js: the async submit listener
showSuccess(s) == [s EXCEPT !.successShown = TRUE, !.errorShown = FALSE]

showProgressMessage(s) == [s EXCEPT !.successShown = TRUE, !.errorShown = FALSE]

\* form.reset(): every control back to the value / checkedness of the markup,
\* file inputs emptied; no event is fired
formReset(s) ==
  [s EXCEPT !.value = s.authored.value, !.number = s.authored.number,
            !.checked = s.authored.checked, !.files = [f \in FileFields |-> 0]]

\* lines 167-227: the payload object (text values trimmed, select values and
\* checked options as they are, '' for a group with no option checked).  The
\* field had is history, not a property of the object: the file inputs that had
\* a file when the object was built.
BuildPayload(s) ==
  [value |-> [f \in TextFields |-> IF f = "level" THEN s.value[f] ELSE Trim(s.value[f])],
   checked |-> [r \in RadioNames |-> IF s.checked[r] = "null" THEN "" ELSE s.checked[r]],
   files |-> {},
   had |-> {f \in FileFields : s.files[f] > 0}]

\* lines 239-260: the hand-off of a payload
handOff_app(s, payload) ==
  LET s1 == [s EXCEPT !.submitDisabled = TRUE]
      s2 == showProgressMessage(s1)
      s3 == [s2 EXCEPT !.logged = Append(@, payload)]
      s4 == showSuccess(s3)
      s5 == Bind(s4, LAMBDA p : formReset(p))
      s6 == [s5 EXCEPT !.preview = {}]
      s7 == goToStep_app(s6, 1)
  IN [s7 EXCEPT !.submitDisabled = FALSE]

\* lines 231-237 from index i of fileIds on, for a handler holding `payload`:
\* the first input that has a file now suspends the handler in await
\* fileToBase64(f); with none left the handler goes on to the hand-off
RECURSIVE readFiles_app(_, _, _)
readFiles_app(s, payload, i) ==
  IF i > Len(FileOrder) THEN handOff_app(s, payload)
  ELSE IF s.files[FileOrder[i]] > 0
       THEN [s EXCEPT !.pending = Append(@, [payload |-> payload, at |-> i])]
       ELSE readFiles_app(s, payload, i + 1)

\* lines 155-237: the listener up to its first await, or to its end
submitHandler_app(s) ==
  IF ~validateStep_app(s, s.currentStep) THEN AfterValidateStep_app(s, s.currentStep)
  ELSE Bind(ValidateAll(AfterValidateStep_app(s, s.currentStep), 1), LAMBDA loop :
         IF loop.failing # 0 THEN goToStep_app(loop.page, loop.failing)
         ELSE readFiles_app(loop.page, BuildPayload(loop.page), 1))

\* reader.onload of the read the k-th suspended handler waits for: the entry of
\* the file is stored and the loop goes on with the next file id
RemoveAt(seq, k) == SubSeq(seq, 1, k - 1) \o SubSeq(seq, k + 1, Len(seq))

resume_app(s, k) ==
  readFiles_app([s EXCEPT !.pending = RemoveAt(@, k)],
                [s.pending[k].payload EXCEPT !.files = @ \cup {FileOrder[s.pending[k].at]}],
                s.pending[k].at + 1)

\* reader.onerror: the promise is rejected, the await throws outside the try
\* block and the handler ends with nothing else done
reject_app(s, k) == [s EXCEPT !.pending = RemoveAt(@, k)]

\* the submit listener of the program loaded
SubmitHandlerOf(s, ans) ==
  CASE s.variant = "staticfiles1" -> submitHandler_sf1(s, ans)
    [] s.variant = "staticfiles2" -> submitHandler_sf2(s)
    [] s.variant = "part000" -> submitHandler_p0(s)
    [] OTHER -> submitHandler_app(s)

\* what the goToStep call of the submit listener did (none: no call was made)
SubmitLogOf(s, ans) ==
  Bind(ValidateAll(s, 1), LAMBDA loop :
    IF (s.variant = "staticfiles1" \/ ValidateStepOf(s, s.currentStep)) /\ loop.failing # 0
    THEN GoToStepLogOf(loop.page, loop.failing, ans, "submit", loop.failing)
    ELSE [NoLog EXCEPT !.kind = "submit", !.from = s.currentStep])

\* ------------------------------------------------------------- chatbot
\* src/static/app.js, lines 535-810: class BursaryHelpChatbot.  Of the object
\* the model keeps isTyping, the number of elements with id typingIndicator in
\* chatMessages, the user messages accepted (numbered in order), the numbers of
\* the messages whose bot reply was appended, in order of the replies, and the
\* timers started with setTimeout that have not fired.  Time is counted in
\* quarters of a second.

\* texts of chatInput when sendMessage is called: empty, blank, a text that
\* contains a keyword of the knowledge base, a text that contains none
ChatTexts == {"", " ", "deadline", "hello"}

\* lines 659-662: data.keywords.some(keyword => lowerMessage.includes(keyword))
\* is true for an entry of the knowledge base
HasKeyword(message) == message = "deadline"

\* the delay of a setTimeout call in quarters of a second: 500 ms (line 654),
\* 1500 ms (line 671), 1000 ms (line 685)
TimerDelay(kind, message) ==
  CASE kind = "process" -> 2
    [] HasKeyword(message) -> 6
    [] OTHER -> 4

\* the constructor, lines 536-611
NewChatbot == [isTyping |-> FALSE, indicators |-> 0, sent |-> 0, replies |-> <<>>, timers |-> <<>>]

\* lines 762-777
showTypingIndicator(c) == [c EXCEPT !.isTyping = TRUE, !.indicators = @ + 1]

\* lines 779-783: getElementById returns the first element that has the id
hideTypingIndicator(c) ==
  [c EXCEPT !.isTyping = FALSE, !.indicators = IF @ > 0 THEN @ - 1 ELSE 0]

\* lines 644-654, with chatInput.value = text
sendMessage(c, text) ==
  IF Trim(text) = "" \/ c.isTyping THEN c
  ELSE [c EXCEPT !.sent = @ + 1,
                 !.timers = Append(@, [kind |-> "process", id |-> c.sent + 1,
                                       message |-> Trim(text),
                                       left |-> TimerDelay("process", Trim(text))])]

\* lines 656-691, for the message of number id
processMessage(c, id, message) ==
  [showTypingIndicator(c) EXCEPT
     !.timers = Append(@, [kind |-> "reply", id |-> id, message |-> message,
                           left |-> TimerDelay("reply", message)])]

\* the callbacks of lines 663-671 and 680-685: the bot reply to message id
replyCallback(c, id) == [hideTypingIndicator(c) EXCEPT !.replies = Append(@, id)]

\* the callback of timer k, the timer removed
timerCallback(c, k) ==
  Bind([c EXCEPT !.timers = RemoveAt(@, k)], LAMBDA c1 :
    IF c.timers[k].kind = "process"
    THEN processMessage(c1, c.timers[k].id, c.timers[k].message)
    ELSE replyCallback(c1, c.timers[k].id))

\* ------------------------------------------------------------ page load
\* The document as served: no group carries class 'show', the required
\* attributes are the authored ones, the controls are empty or carry the values
\* the server rendered into them, and any option of a radio group may be
\* pre-checked.
BlankValues == [f \in TextFields |-> ""]
BlankNumbers == [f \in NumberFields |-> <<>>]
FilledValues == [f \in TextFields |->
                   CASE f = "level" -> "University"
                     [] f \in {"fullName", "fatherName", "disabilityNature", "otherProvider"} -> "x"
                     [] OTHER -> ""]
FilledNumbers == [f \in NumberFields |->
                   CASE f = "tuition_fee" -> <<20>>
                     [] f = "amount_requested" -> <<2>>
                     [] OTHER -> <<>>]

\* The authored defaults are read by form.reset() only, which src/app.js alone
\* calls; for the other programs the variable keeps the defaults of an empty form.
Defaults(v, vals, nums, preChecked) ==
  IF v = "app" THEN [value |-> vals, number |-> nums, checked |-> preChecked]
  ELSE [value |-> BlankValues, number |-> BlankNumbers,
        checked |-> [r \in RadioNames |-> "null"]]

Served(v, vals, nums, preChecked) ==
  [currentStep |-> 1, checked |-> preChecked, show |-> [g \in Groups |-> FALSE],
   required |-> [f \in Fields |-> AuthoredRequiredIn(v, f)],
   originalRequired |-> [f \in Fields |-> "undefined"],
   value |-> vals, number |-> nums, files |-> [f \in FileFields |-> 0],
   isInvalid |-> {}, errorShown |-> FALSE, successShown |-> FALSE,
   submitDisabled |-> FALSE, submitLabel |-> "Submit Application", handedOff |-> FALSE,
   pct |-> 0, activeSections |-> {}, completedSections |-> {}, perfLabel |-> "Term",
   variant |-> v, hasError |-> {}, preview |-> {},
   authored |-> Defaults(v, vals, nums, preChecked),
   pending |-> <<>>, logged |-> <<>>, chat |-> NewChatbot]

\* the DOMContentLoaded callback, in the order of its statements
\* the five setRadioDefault calls of lines 61-65
RadioDefaults(doc) ==
  LET d1 == setRadioDefault(doc, "orphan", "False")
      d2 == setRadioDefault(d1, "disability", "False")
      d3 == setRadioDefault(d2, "previousBursary", "False")
      d4 == setRadioDefault(d3, "singleParent", "False")
  IN setRadioDefault(d4, "bothParentsAlive", "True")

Loaded(doc) ==
  updateProgress(handleInstitutionLabels(handleConditionalFields(RadioDefaults(doc))))

\* src/staticfiles/app.js, lines 55-60: the statements of src/static/app.js
setRadioDefault_sf1(s, name, val) == setRadioDefault(s, name, val)

\* src/staticfiles/app.js, lines 2-371
Loaded_sf1(doc) ==
  LET d1 == setRadioDefault_sf1(doc, "orphan", "False")
      d2 == setRadioDefault_sf1(d1, "disability", "False")
      d3 == setRadioDefault_sf1(d2, "previousBursary", "False")
      d4 == setRadioDefault_sf1(d3, "singleParent", "False")
  IN updateProgress(handleConditionalFields_sf1(d4))

\* src/unnamed/part_000, lines 64-67: no test for an option already checked
setRadioDefault_p0(s, name, val) == [s EXCEPT !.checked[name] = val]

\* the four setRadioDefault calls of lines 58-61 of src/unnamed/part_000
RadioDefaults_p0(doc) ==
  LET d1 == setRadioDefault_p0(doc, "orphan", "False")
      d2 == setRadioDefault_p0(d1, "disability", "False")
      d3 == setRadioDefault_p0(d2, "previousBursary", "False")
  IN setRadioDefault_p0(d3, "singleParent", "False")

Loaded_p0(doc) == updateProgress(handleConditionalFields_p0(RadioDefaults_p0(doc)))

\* src/staticfiles/app.js, lines 372-703: the defaults are assigned directly
Loaded_sf2(doc) ==
  LET d4 == [doc EXCEPT !.checked["orphan"] = "False", !.checked["disability"] = "False",
                        !.checked["previousBursary"] = "False",
                        !.checked["singleParent"] = "False"]
  IN updateProgress(handleConditionalFields_sf2(d4))

\* src/app.js, lines 1-283: the five blocks get style.display = 'none'
Loaded_app(doc) ==
  LET d0 == [doc EXCEPT !.show = [g \in Groups |-> FALSE]]
      d4 == [d0 EXCEPT !.checked["orphan"] = "No", !.checked["disability"] = "No",
                       !.checked["previousBursary"] = "No", !.checked["singleParent"] = "No"]
  IN updateProgress(d4)

LoadedOf(doc) ==
  CASE doc.variant = "static" -> Loaded(doc)
    [] doc.variant = "staticfiles1" -> Loaded_sf1(doc)
    [] doc.variant = "staticfiles2" -> Loaded_sf2(doc)
    [] doc.variant = "part000" -> Loaded_p0(doc)
    [] OTHER -> Loaded_app(doc)

PreChecked == [RadioNames -> {"null", "True", "False"}]

Init ==
  \E preChecked \in {[r \in RadioNames |-> "null"]} :
    \E filled \in BOOLEAN :
      /\ Holds(Loaded(Served("static",
                             IF filled THEN FilledValues ELSE BlankValues,
                             IF filled THEN FilledNumbers ELSE BlankNumbers,
                             preChecked)))
      /\ edits = MaxEdits
      /\ lastEv = [NoLog EXCEPT !.kind = "load"]

\* ---------------------------------------------------------------- events
\* A control can be operated when its section is the one displayed and it is not
\* inside a conditional group that is hidden.
Operable(f) == FieldSection(f) = currentStep /\ ~InHiddenGroup(Cur, f)

\* change event of a radio input: both change listeners of the form (lines 152
\* and 391) call handleConditionalFields
OnRadioChange(s) ==
  LET s1 == handleConditionalFields(s)
      s2 == handleConditionalFields(s1)
  IN s2

\* the change listeners of the program loaded, for the radio r now at value v
OnRadioChangeOf(s, r, v) ==
  CASE s.variant = "static" -> OnRadioChange(s)
    [] s.variant = "staticfiles1" -> handleConditionalFields_sf1(s)
    [] s.variant = "staticfiles2" -> handleConditionalFields_sf2(s)
    [] s.variant = "part000" -> handleConditionalFields_p0(s)
    [] OTHER -> radioChange_app(s, r, v)

RadioChange(r, v) ==
  /\ ~handedOff
  /\ edits > 0
  /\ Operable(r)
  /\ checked[r] # v
  /\ LET s0 == [Cur EXCEPT !.checked[r] = v]
         s1 == OnRadioChangeOf(s0, r, v)
     IN Assign(s1)
  /\ lastEv' = [NoLog EXCEPT !.kind = "radio"]
  /\ edits' = edits - 1

\* typing into a text or tel control: the keyup listener of src/static/app.js
\* validates text controls; the other programs have no such listener
EditText(f, v) ==
  /\ ~handedOff
  /\ edits > 0
  /\ f \in TextFields \ {"level"}
  /\ Operable(f)
  /\ value[f] # v
  /\ LET s1 == [Cur EXCEPT !.value[f] = v]
         s2 == IF variant = "static" /\ FieldType(f) = "text"
               THEN AfterValidateField(s1, f) ELSE s1
     IN Assign(s2)
  /\ lastEv' = [NoLog EXCEPT !.kind = "edit"]
  /\ edits' = edits - 1

\* typing into a number control, validated by the keyup listener
EditNumber(f, v) ==
  /\ ~handedOff
  /\ edits > 0
  /\ Operable(f)
  /\ number[f] # v
  /\ LET s1 == [Cur EXCEPT !.number[f] = v]
         s2 == IF variant = "static" THEN AfterValidateField(s1, f) ELSE s1
     IN Assign(s2)
  /\ lastEv' = [NoLog EXCEPT !.kind = "edit"]
  /\ edits' = edits - 1

\* choosing an option of select[name="level"]: the change listeners relabel
SelectLevel(v) ==
  /\ ~handedOff
  /\ edits > 0
  /\ Operable("level")
  /\ value["level"] # v
  /\ LET s1 == [Cur EXCEPT !.value["level"] = v]
         s2 == handleInstitutionLabels(s1)
         s3 == handleInstitutionLabels(s2)
     IN Assign(IF variant = "static" THEN s3 ELSE s1)
  /\ lastEv' = [NoLog EXCEPT !.kind = "edit"]
  /\ edits' = edits - 1

\* attaching or removing the file of a file input: the change listener of the
\* input writes or empties its preview
ChooseFile(f, k) ==
  /\ ~handedOff
  /\ edits > 0
  /\ Operable(f)
  /\ files[f] # k
  /\ LET s1 == [Cur EXCEPT !.files[f] = k,
                           !.preview = IF k = 0 THEN @ \ {f} ELSE @ \cup {f}]
     IN Assign(s1)
  /\ lastEv' = [NoLog EXCEPT !.kind = "edit"]
  /\ edits' = edits - 1

\* blur of a control: the capturing listener of the form validates it; the
\* listener on amount_requested then empties an amount above the tuition fee
AmountBlur(s) ==
  IF AmountExceeds(s) THEN showError([s EXCEPT !.number["amount_requested"] = <<>>])
  ELSE clearMessages(s)

\* src/app.js has no blur listener; the other three programs have the one on
\* amount_requested only
Blur(f) ==
  /\ ~handedOff
  /\ Operable(f)
  /\ variant # "app"
  /\ variant = "static" \/ f = "amount_requested"
  /\ LET s0 == Cur
         s1 == IF variant = "static" THEN AfterValidateField(s0, f) ELSE s0
         s2 == IF f = "amount_requested" THEN AmountBlur(s1) ELSE s1
     IN Assign(s2)
  /\ lastEv' = [NoLog EXCEPT !.kind = "blur"]
  /\ UNCHANGED edits

\* click on a navigation button of the section displayed
ButtonTarget(b) ==
  CASE b = "toStep2" -> 2 [] b = "backTo1" -> 1 [] b = "toStep3" -> 3 [] b = "backTo2" -> 2
    [] b = "toStep4" -> 4 [] b = "backTo3" -> 3 [] b = "toStep5" -> 5 [] OTHER -> 4

\* the click listeners of the button in the program loaded
ClickOf(s, b, ans) ==
  CASE b = "toStep3" /\ s.variant = "part000" -> toStep3Listener_p0(s, ans)
    [] b = "toStep3" /\ s.variant = "staticfiles2" -> toStep3Listeners_sf2(s, ans)
    [] OTHER -> GoToStepOf(s, ButtonTarget(b), ans)

ClickLogOf(s, b, ans) ==
  CASE s.variant = "static" -> GoToStepLog(s, ButtonTarget(b), ans, "click", 0)
    [] b = "toStep3" /\ s.variant \in {"part000", "staticfiles2"} -> ToStep3Log(s, ans)
    [] OTHER -> GoToStepLogOf(s, ButtonTarget(b), ans, "click", 0)

ClickNav(b, ans) ==
  /\ ~handedOff
  /\ ButtonSection(b) = currentStep
  /\ Assign(ClickOf(Cur, b, ans))
  /\ lastEv' = ClickLogOf(Cur, b, ans)
  /\ UNCHANGED edits

\* submit event (the submit button, or implicit submission from a control of
\* the section displayed)
\* the loop of the submit handler started at step k: failing is the step whose
\* validateStep returned false (0 when none did), page the page when the loop ends
RECURSIVE ValidateFrom(_, _)
ValidateFrom(s, k) ==
  IF k > totalSteps THEN [failing |-> 0, page |-> s]
  ELSE IF ~validateStep(s, k) THEN [failing |-> k, page |-> AfterValidateStep(s, k)]
  ELSE ValidateFrom(AfterValidateStep(s, k), k + 1)

\* submit listener that hands the form off when the step displayed validates,
\* without the loop over all steps
submitHandlerCurrentStepOnly(s, ans) ==
  IF ~validateStep(s, s.currentStep)
  THEN [showError(AfterValidateStep(s, s.currentStep))
          EXCEPT !.submitDisabled = FALSE, !.submitLabel = "Submit Application"]
  ELSE [AfterValidateStep(s, s.currentStep)
          EXCEPT !.submitDisabled = TRUE, !.submitLabel = "Submitting...",
                 !.handedOff = TRUE]

submitHandler(s, ans) ==
  Bind(ValidateFrom(s, 1), LAMBDA loop :
    IF loop.failing # 0
    THEN [showError(goToStep(loop.page, loop.failing, ans))
            EXCEPT !.submitDisabled = FALSE, !.submitLabel = "Submit Application"]
    ELSE [loop.page EXCEPT !.submitDisabled = TRUE, !.submitLabel = "Submitting...",
                           !.handedOff = TRUE])

\* the log of an event of src/app.js in which a hand-off happened: its call goToStep(1)
HandOffLog(s, kind) ==
  [NoLog EXCEPT !.kind = kind, !.n = 1, !.from = s.currentStep]

\* what the goToStep call of the submit listener of src/static/app.js did
SubmitLog(s, ans) ==
  Bind(ValidateFrom(s, 1), LAMBDA loop :
    IF loop.failing # 0
    THEN GoToStepLog(loop.page, loop.failing, ans, "submit", loop.failing)
    ELSE [NoLog EXCEPT !.kind = "submit"])

Submit(ans) ==
  /\ ~handedOff
  /\ variant = "app" => Len(pending) + Len(logged) < MaxSubmits
  /\ \E s2 \in {IF variant = "static" THEN submitHandler(Cur, ans)
                  ELSE SubmitHandlerOf(Cur, ans)} :
       /\ Assign(s2)
       /\ lastEv' = IF variant = "static" THEN SubmitLog(Cur, ans)
                    ELSE IF Len(s2.logged) > Len(logged) THEN HandOffLog(Cur, "submit")
                    ELSE SubmitLogOf(Cur, ans)
  /\ UNCHANGED edits

Next ==
  \/ \E r \in RadioNames, v \in RadioValues(variant) : RadioChange(r, v)
  \/ \E f \in TextFields : \E v \in TextValues(f) : EditText(f, v)
  \/ \E f \in NumberFields : \E v \in EditNumbers(f) : EditNumber(f, v)
  \/ \E v \in LevelValues : SelectLevel(v)
  \/ \E f \in FileFields, k \in 0..1 : ChooseFile(f, k)
  \/ \E f \in Fields : Blur(f)
  \/ \E b \in NavButtons, ans \in Answers : ClickNav(b, ans)
  \/ \E ans \in Answers : Submit(ans)

Spec == Init /\ [][Next]_vars

\* ------------------------------------------------- all five programs
\* Enter pressed in a control of the section displayed: the keydown listener of
\* the document; when it does not call preventDefault the key submits the form.
\* src/static/app.js and the first program of src/staticfiles/app.js have no
\* keydown listener, there the key is the submit event above.
KeydownOf(s) ==
  CASE s.variant = "staticfiles2" -> keydown_sf2(s)
    [] s.variant = "part000" -> keydown_p0(s)
    [] OTHER -> keydown_app(s)

EnterKey(ans) ==
  /\ ~handedOff
  /\ variant \in {"staticfiles2", "part000", "app"}
  /\ variant = "app" => Len(pending) + Len(logged) < MaxSubmits
  /\ \E key \in {KeydownOf(Cur)} :
       \E s2 \in {IF key.prevented THEN key.page ELSE SubmitHandlerOf(key.page, ans)} :
         /\ Assign(s2)
         /\ lastEv' = IF key.prevented
                      THEN GoToStepLogOf(Cur, currentStep + 1, ans, "enter", 0)
                      ELSE IF Len(s2.logged) > Len(logged) THEN HandOffLog(Cur, "submit")
                      ELSE SubmitLogOf(Cur, ans)
  /\ UNCHANGED edits

\* src/app.js: the read of a suspended submit handler completes
ReadDone(k) ==
  /\ variant = "app"
  /\ k \in 1..Len(pending)
  /\ \E s1 \in {resume_app(Cur, k)} :
       /\ Assign(s1)
       /\ lastEv' = IF Len(s1.logged) > Len(logged) THEN HandOffLog(Cur, "readDone")
                    ELSE [NoLog EXCEPT !.kind = "readDone"]
  /\ UNCHANGED edits

\* src/app.js: the read of a suspended submit handler fails
ReadFail(k) ==
  /\ variant = "app"
  /\ k \in 1..Len(pending)
  /\ Assign(reject_app(Cur, k))
  /\ lastEv' = [NoLog EXCEPT !.kind = "readFail"]
  /\ UNCHANGED edits

InitAll ==
  \E v \in Variants, filled \in BOOLEAN :
      /\ Holds(LoadedOf(Served(v,
                               IF filled THEN FilledValues ELSE BlankValues,
                               IF filled THEN FilledNumbers ELSE BlankNumbers,
                               [r \in RadioNames |-> "null"])))
      /\ edits = MaxVariantEdits
      /\ lastEv = [NoLog EXCEPT !.kind = "load"]

NextAll ==
  \/ Next
  \/ \E ans \in Answers : EnterKey(ans)
  \/ \E k \in 1..MaxSubmits : ReadDone(k)
  \/ \E k \in 1..MaxSubmits : ReadFail(k)

SpecAll == InitAll /\ [][NextAll]_vars

\* ------------------------------------- the payload and the backend handler
\* keys of the payload object the submit handler of src/app.js builds (lines 167-227)
PayloadKeys ==
  {"timestamp", "fullName", "idNumber", "dob", "gender", "county", "subCounty",
   "ward", "location", "subLocation", "village", "chiefName", "phone", "email",
   "orphan", "disability", "disabilityNature", "disabilityRegNo",
   "previousBursary", "cdfAmount", "ministryAmount", "countyGovAmount",
   "otherBursary", "institution", "level", "course", "yearForm", "instCounty",
   "instContact", "term1", "term2", "term3", "fatherName", "motherName",
   "guardianName", "relation", "fatherOccupation", "motherOccupation",
   "parentPhone", "parentId", "bothParentsAlive", "singleParent",
   "feesProvider", "otherProvider", "signature", "studentDate",
   "parentSignature", "parentDate", "chiefFullName", "chiefSubLocation",
   "chiefCounty", "chiefSubCounty", "chiefLocation", "chiefComments",
   "chiefSignature", "chiefDate", "rubberStamp", "notes", "files"}

\* const fileIds of the submit handler (line 230)
fileIds == <<"idFile", "reportForm", "parentIdFile", "studentIdFile", "instIdFile",
             "instLetter", "guardianFile", "passportPhoto">>

\* doPost of src/static/app.js: the properties of body read for the sheet row
\* (lines 841 and 864-883), and the keys of fileUrls read for its last three cells
\* (lines 884-886)
doPostBodyFields ==
  {"timestamp", "fullName", "idNumber", "dob", "gender", "county", "subCounty",
   "phone", "email", "orphan", "institution", "level", "course", "yearForm",
   "instContact", "parentName", "relation", "parentPhone", "parentId",
   "signature", "notes"}
doPostFileKeys == {"idFile", "instLetter", "guardianFile"}

\* ------------------------------------------ the file reads of src/app.js
\* The filled form of src/app.js with the events that matter to the submit
\* handler: the orphan radio (which displays the block of guardianFile), the
\* file inputs, navigation, submission and the completion or failure of a read.
MaxFileEdits == 3

InitFiles ==
  /\ Holds(Loaded_app(Served("app", FilledValues, FilledNumbers, [r \in RadioNames |-> "null"])))
  /\ edits = MaxFileEdits
  /\ lastEv = [NoLog EXCEPT !.kind = "load"]

NextFiles ==
  \/ \E v \in RadioValues("app") : RadioChange("orphan", v)
  \/ \E f \in FileFields, k \in 0..1 : ChooseFile(f, k)
  \/ \E b \in NavButtons, ans \in Answers : ClickNav(b, ans)
  \/ \E ans \in Answers : Submit(ans)
  \/ \E k \in 1..MaxSubmits : ReadDone(k)
  \/ \E k \in 1..MaxSubmits : ReadFail(k)

SpecFiles == InitFiles /\ [][NextFiles]_vars

\* ------------------------------------------- the visibility engine alone
\* Every combination of pre-checked radio options, with radio changes and
\* navigation between the sections that hold the radio groups.
RadioToggle(r, v) ==
  /\ ~handedOff
  /\ Operable(r)
  /\ checked[r] # v
  /\ LET s0 == [Cur EXCEPT !.checked[r] = v]
         s1 == OnRadioChange(s0)
     IN Assign(s1)
  /\ lastEv' = [NoLog EXCEPT !.kind = "radio"]
  /\ UNCHANGED edits

InitRadio ==
  \E preChecked \in PreChecked :
    \E filled \in BOOLEAN :
      /\ Holds(Loaded(Served("static",
                             IF filled THEN FilledValues ELSE BlankValues,
                             IF filled THEN FilledNumbers ELSE BlankNumbers,
                             preChecked)))
      /\ edits = 0
      /\ lastEv = [NoLog EXCEPT !.kind = "load"]

NextRadio ==
  \/ \E r \in RadioNames, v \in RadioValues("static") : RadioToggle(r, v)
  \/ \E b \in NavButtons, ans \in Answers : ClickNav(b, ans)

SpecRadio == InitRadio /\ [][NextRadio]_vars

\* ------------------------------- the visibility engines of four programs
\* The programs that manage the required attribute (src/static/app.js, both
\* programs of src/staticfiles/app.js, src/unnamed/part_000), loaded on every
\* combination of pre-checked radio options, with radio changes and navigation.
ToggleVariants == {"static", "staticfiles1", "staticfiles2", "part000"}

RadioToggleOf(r, v) ==
  /\ ~handedOff
  /\ Operable(r)
  /\ checked[r] # v
  /\ Assign(OnRadioChangeOf([Cur EXCEPT !.checked[r] = v], r, v))
  /\ lastEv' = [NoLog EXCEPT !.kind = "radio"]
  /\ UNCHANGED edits

InitToggle ==
  \E v \in ToggleVariants, preChecked \in PreChecked :
    \E filled \in BOOLEAN :
      /\ Holds(LoadedOf(Served(v,
                               IF filled THEN FilledValues ELSE BlankValues,
                               IF filled THEN FilledNumbers ELSE BlankNumbers,
                               preChecked)))
      /\ edits = 0
      /\ lastEv = [NoLog EXCEPT !.kind = "load"]

NextToggle ==
  \/ \E r \in RadioNames, v \in RadioValues(variant) : RadioToggleOf(r, v)
  \/ \E b \in NavButtons, ans \in Answers : ClickNav(b, ans)

SpecToggle == InitToggle /\ [][NextToggle]_vars

\* ------------------------------------------ the radio defaults as a function
\* The setRadioDefault calls of src/static/app.js and src/unnamed/part_000
\* applied to the document as served, for every combination of pre-checked
\* options.
DefaultVariants == {"static", "part000"}

\* the groups a program gives a default to, and the default option
DefaultOf(v, r) ==
  CASE r = "bothParentsAlive" -> IF v = "static" THEN "True" ELSE "none"
    [] OTHER -> "False"

RadioDefaultsOf(s) == IF s.variant = "static" THEN RadioDefaults(s) ELSE RadioDefaults_p0(s)

InitDefaults ==
  \E v \in DefaultVariants, preChecked \in PreChecked :
    /\ Holds(Served(v, BlankValues, BlankNumbers, preChecked))
    /\ edits = 0
    /\ lastEv = [NoLog EXCEPT !.kind = "served"]

ApplyDefaults ==
  /\ lastEv.kind = "served"
  /\ Assign(RadioDefaultsOf(Cur))
  /\ lastEv' = [NoLog EXCEPT !.kind = "defaults"]
  /\ UNCHANGED edits

NextDefaults == ApplyDefaults

SpecDefaults == InitDefaults /\ [][NextDefaults]_vars

\* ------------------------------------- the financial rules as a function
\* validateFinancialFields() applied to a page whose three amounts are drawn
\* from -1..MaxFee (incomes around every multiple of ten up to 10 * MaxFee) or
\* left empty, and to the amounts of the end-to-end examples.
FinAmounts == {<<>>} \cup {<<n>> : n \in -1..MaxFee}
FinIncomes == {<<>>} \cup {<<10 * k + d>> : k \in 0..MaxFee, d \in {-1, 0, 1}}
FinExamples ==
  {[tuition_fee |-> <<10000>>, amount_requested |-> <<5000>>, annual_family_income |-> <<200000>>],
   [tuition_fee |-> <<10000>>, amount_requested |-> <<15000>>, annual_family_income |-> <<>>],
   [tuition_fee |-> <<10000>>, amount_requested |-> <<500>>, annual_family_income |-> <<>>]}

InitFin ==
  \E nums \in [tuition_fee : FinAmounts, amount_requested : FinAmounts,
               annual_family_income : FinIncomes] \cup FinExamples :
      /\ Holds(Loaded(Served("static", FilledValues, [f \in NumberFields |-> nums[f]],
                             [r \in RadioNames |-> "null"])))
      /\ edits = 0
      /\ lastEv = [NoLog EXCEPT !.kind = "load"]

FinancialCheck(ans) ==
  /\ LET s0 == Cur
         res == validateFinancialFields(s0, ans)
         s1 == AfterFinancial(s0)
     IN /\ Assign(s1)
        /\ lastEv' = [NoLog EXCEPT !.kind = "fin", !.ranFin = TRUE, !.finOk = res.ok,
                                   !.asked = res.asked, !.accepted = res.accepted]
  /\ UNCHANGED edits

NextFin == \E ans \in Answers : FinancialCheck(ans)

SpecFin == InitFin /\ [][NextFin]_vars

\* The financial check of src/unnamed/part_000 and of the second program of
\* src/staticfiles/app.js, applied to the same amounts.
FinVariants == {"part000", "staticfiles2"}

InitFin_p0 ==
  \E v \in FinVariants :
    \E nums \in [tuition_fee : FinAmounts, amount_requested : FinAmounts,
                 annual_family_income : {<<>>, <<10 * MaxFee + 1>>}] :
      /\ Holds(LoadedOf(Served(v, FilledValues, [f \in NumberFields |-> nums[f]],
                               [r \in RadioNames |-> "null"])))
      /\ edits = 0
      /\ lastEv = [NoLog EXCEPT !.kind = "load"]

FinancialCheck_p0(ans) ==
  /\ \E res \in {IF variant = "part000" THEN validateFinancialFields_p0(Cur, ans)
                 ELSE validateFinancialFields_sf2(Cur, ans)} :
       lastEv' = [NoLog EXCEPT !.kind = "fin", !.ranFin = TRUE, !.finOk = res.ok,
                               !.asked = res.asked, !.accepted = res.accepted]
  /\ Assign(IF variant = "part000" THEN AfterFinancial_p0(Cur) ELSE AfterFinancial_sf2(Cur))
  /\ UNCHANGED edits

NextFin_p0 == \E ans \in Answers : FinancialCheck_p0(ans)

SpecFin_p0 == InitFin_p0 /\ [][NextFin_p0]_vars

\* ---------------------------------- the two programs with a guarded submit
\* src/unnamed/part_000 and src/app.js, whose submit listeners validate the step
\* displayed before the loop over all steps, with every event of these programs.
SubmitVariants == {"part000", "app"}

InitSubmit ==
  \E v \in SubmitVariants, filled \in BOOLEAN :
      /\ Holds(LoadedOf(Served(v,
                               IF filled THEN FilledValues ELSE BlankValues,
                               IF filled THEN FilledNumbers ELSE BlankNumbers,
                               [r \in RadioNames |-> "null"])))
      /\ edits = MaxVariantEdits
      /\ lastEv = [NoLog EXCEPT !.kind = "load"]

SpecSubmit == InitSubmit /\ [][NextAll]_vars

\* ---------------------------------------------------- the chatbot alone
\* The chatbot of src/static/app.js: clicks on the send button with the texts
\* of ChatTexts in the input, the passing of time and the timers.
MaxChatSends == 2

\* click on sendButton, or Enter in chatInput, with `text` in the input
SendMessage(text) ==
  /\ variant = "static"
  /\ chat.sent < MaxChatSends
  /\ Assign([Cur EXCEPT !.chat = sendMessage(chat, text)])
  /\ lastEv' = [NoLog EXCEPT !.kind = "chat"]
  /\ UNCHANGED edits

\* a quarter of a second passes with no timer due
TimePasses ==
  /\ chat.timers # <<>>
  /\ \A k \in 1..Len(chat.timers) : chat.timers[k].left > 0
  /\ Assign([Cur EXCEPT !.chat.timers =
               [k \in 1..Len(chat.timers) |-> [chat.timers[k] EXCEPT !.left = @ - 1]]])
  /\ lastEv' = [NoLog EXCEPT !.kind = "time"]
  /\ UNCHANGED edits

\* the timer that is due fires; of several due the one started first
TimerFires ==
  /\ \E k \in 1..Len(chat.timers) :
       /\ chat.timers[k].left = 0
       /\ \A j \in 1..(k - 1) : chat.timers[j].left > 0
       /\ Assign([Cur EXCEPT !.chat = timerCallback(chat, k)])
  /\ lastEv' = [NoLog EXCEPT !.kind = "timer"]
  /\ UNCHANGED edits

InitChat ==
  /\ Holds(Loaded(Served("static", BlankValues, BlankNumbers, [r \in RadioNames |-> "null"])))
  /\ edits = 0
  /\ lastEv = [NoLog EXCEPT !.kind = "load"]

NextChat ==
  \/ \E text \in ChatTexts : SendMessage(text)
  \/ TimePasses
  \/ TimerFires

SpecChat == InitChat /\ [][NextChat]_vars

TypeOK ==
  /\ currentStep \in Int
  /\ variant \in Variants
  /\ checked \in [RadioNames -> CheckedValues]
  /\ show \in [Groups -> BOOLEAN]
  /\ edits \in 0..MaxEdits


\* ---------------------------------------------------------------- claims
TuitionFeeValue == ParseFloat(number["tuition_fee"])
AmountRequestedValue == ParseFloat(number["amount_requested"])
AnnualIncomeValue == ParseFloat(number["annual_family_income"])

\* C1: when goToStep(n) is called with n > currentStep while
\* validateStep(currentStep) is false, currentStep is unchanged after the call.
C1_InvalidStepBlocksForward ==
  (lastEv.kind \in {"click", "submit"} /\ lastEv.n > lastEv.from /\ ~lastEv.valid)
    => currentStep = lastEv.from

C1_Witness ==
  /\ lastEv.kind = "click" /\ lastEv.n > lastEv.from /\ ~lastEv.valid
  /\ currentStep = lastEv.from /\ edits < MaxEdits

\* C2: in every program, an event whose goToStep(n) call has n below the step
\* displayed sets currentStep to n; the call runs neither validateStep nor the
\* financial check and asks no confirmation, and a click on a back button
\* leaves every value, inline error and radio-group error mark as it was.
C2_BackwardNavigationUnconditional ==
  [][(lastEv'.n # 0 /\ lastEv'.n < lastEv'.from) =>
       /\ currentStep' = lastEv'.n
       /\ ~lastEv'.ranValidate /\ ~lastEv'.ranFin /\ lastEv'.asked = <<>>
       /\ lastEv'.kind = "click" =>
            /\ lastEv'.from = currentStep
            /\ isInvalid' = isInvalid /\ hasError' = hasError
            /\ value' = value /\ number' = number /\ checked' = checked]_vars

C2_Witness ==
  /\ lastEv.kind = "click" /\ lastEv.n < lastEv.from /\ currentStep = lastEv.n
  /\ variant = "app" /\ ~validateStep_app(Cur, lastEv.from)

\* C3: currentStep is 1 after the page has loaded and is in 1..totalSteps in
\* every reachable state of every program.
C3_CurrentStepInRange ==
  /\ currentStep \in 1..totalSteps
  /\ lastEv.kind = "load" => currentStep = 1

C3_Witness ==
  /\ lastEv.kind = "enter" /\ lastEv.from = totalSteps - 1 /\ currentStep = totalSteps
  /\ variant = "app"

\* C4: every event that takes currentStep from 2 to a larger step is one in
\* which validateFinancialFields() returned true, and an event in which it
\* returned false leaves currentStep at 2.
C4_LeavingStepTwoNeedsFinancialCheck ==
  [][/\ (currentStep = 2 /\ currentStep' > 2) => (lastEv'.ranFin /\ lastEv'.finOk)
     /\ (lastEv'.ranFin /\ ~lastEv'.finOk) => (currentStep = 2 /\ currentStep' = 2)]_vars

C4_Witness ==
  /\ lastEv.from = 2 /\ currentStep > 2 /\ lastEv.ranFin /\ lastEv.finOk
  /\ lastEv.asked # <<>>

\* C6: validateFinancialFields returns false without asking any confirmation
\* when tuition_fee <= 0, amount_requested <= 0 or amount_requested > tuition_fee,
\* and returns true without asking any confirmation when
\* amount_requested = tuition_fee > 0 and income <= 10 * tuition_fee.
C6_HardFinancialRules ==
  lastEv.kind = "fin" =>
    /\ (TuitionFeeValue <= 0 \/ AmountRequestedValue <= 0 \/ AmountRequestedValue > TuitionFeeValue)
         => (~lastEv.finOk /\ lastEv.asked = <<>>)
    /\ (AmountRequestedValue = TuitionFeeValue /\ TuitionFeeValue > 0 /\ AnnualIncomeValue <= 10 * TuitionFeeValue)
         => (lastEv.finOk /\ lastEv.asked = <<>>)

C6_Witness ==
  /\ lastEv.kind = "fin" /\ AmountRequestedValue = TuitionFeeValue /\ TuitionFeeValue > 0
  /\ AnnualIncomeValue = 10 * TuitionFeeValue /\ lastEv.finOk

\* C7: when the hard rules pass, the low-amount confirmation is asked iff
\* 10 * amount_requested < tuition_fee; the income confirmation is asked iff
\* income > 10 * tuition_fee and the low-amount confirmation was not declined;
\* the low-amount confirmation comes first; the function returns true iff
\* every confirmation asked was accepted.
C7_SoftFinancialRules ==
  (lastEv.kind = "fin" /\ TuitionFeeValue > 0 /\ AmountRequestedValue > 0 /\ AmountRequestedValue <= TuitionFeeValue)
    => LET askedSet == {lastEv.asked[k] : k \in 1..Len(lastEv.asked)}
           lowDeclined == lastEv.asked # <<>> /\ lastEv.asked[1] = "low" /\ ~lastEv.accepted[1]
       IN /\ ("low" \in askedSet) <=> (10 * AmountRequestedValue < TuitionFeeValue)
          /\ ("income" \in askedSet) <=> (AnnualIncomeValue > 10 * TuitionFeeValue /\ ~lowDeclined)
          /\ lastEv.asked \in {<<>>, <<"low">>, <<"income">>, <<"low", "income">>}
          /\ Len(lastEv.accepted) = Len(lastEv.asked)
          /\ lastEv.finOk <=> (\A k \in 1..Len(lastEv.accepted) : lastEv.accepted[k])

C7_Witness ==
  /\ lastEv.kind = "fin" /\ lastEv.asked = <<"low", "income">> /\ lastEv.finOk

\* C8 as stated: with tuitionFee = 10000, amountRequested = 5000 and annual
\* income = 200000 the financial check passes without asking any confirmation.
C8_ExamplePassesSilently ==
  (lastEv.kind = "fin" /\ TuitionFeeValue = 10000 /\ AmountRequestedValue = 5000 /\ AnnualIncomeValue = 200000)
    => (lastEv.finOk /\ lastEv.asked = <<>>)

\* C8 amended: with these amounts the low-amount confirmation is not asked, the
\* income confirmation is asked (200000 > 10 * 10000), and the check passes iff
\* that confirmation is accepted.
C8_ExampleAsksIncome ==
  (lastEv.kind = "fin" /\ TuitionFeeValue = 10000 /\ AmountRequestedValue = 5000 /\ AnnualIncomeValue = 200000)
    => (lastEv.asked = <<"income">> /\ lastEv.finOk = lastEv.accepted[1])

C8_Witness ==
  /\ lastEv.kind = "fin" /\ TuitionFeeValue = 10000 /\ AmountRequestedValue = 5000
  /\ AnnualIncomeValue = 200000 /\ lastEv.finOk

\* C9: orphanNote is shown iff orphan = True, disabilityDetails iff
\* disability = True, and both previous-bursary blocks iff previousBursary = True.
C9_SimpleGroupsFollowTheirRadio ==
  /\ show["orphanNote"] <=> (checked["orphan"] = "True")
  /\ show["disabilityDetails"] <=> (checked["disability"] = "True")
  /\ show["previousBursaryDetails"] <=> (checked["previousBursary"] = "True")
  /\ show["previousBursaryDetailsContinued"] <=> (checked["previousBursary"] = "True")

C9_Witness ==
  /\ lastEv.kind = "radio" /\ show["previousBursaryDetails"]
  /\ show["previousBursaryDetailsContinued"] /\ show["orphanNote"] /\ ~show["disabilityDetails"]

\* C10: after every radio change event providerNote is shown iff orphan = True
\* or bothParentsAlive = False or singleParent = True, bothParentsAlive = False
\* counting as true when the parental-status group is hidden.
C10_ProviderNoteRule ==
  lastEv.kind = "radio" =>
    (show["providerNote"] <=>
       \/ checked["orphan"] = "True"
       \/ checked["bothParentsAlive"] = "False"
       \/ ~show["parentalStatusGroup"]
       \/ checked["singleParent"] = "True")

\* C5: in src/static/app.js and in the first program of src/staticfiles/app.js
\* neither the hand-off form.submit() nor a forward transition out of step 2
\* happens in a state where amount_requested > tuition_fee.
C5_AmountAboveFeeAlwaysBlocks ==
  variant \in {"static", "staticfiles1"} =>
    /\ handedOff => ~(AmountRequestedValue > TuitionFeeValue)
    /\ (lastEv.from = 2 /\ currentStep > 2) => ~(AmountRequestedValue > TuitionFeeValue)

\* C11: in src/static/app.js and in both programs of src/staticfiles/app.js,
\* in every reachable state (each follows a call of handleConditionalFields)
\* every control inside a conditional group carries the required attribute iff
\* its group is shown and the control was authored required; so no control of
\* a hidden group carries required.
C11_RequiredFollowsVisibility ==
  variant \in {"static", "staticfiles1", "staticfiles2"} =>
    \A f \in Fields :
      GroupOf(variant, f) # "none" =>
        (required[f] <=> (show[GroupOf(variant, f)] /\ AuthoredRequiredIn(variant, f)))

C11_Witness ==
  /\ lastEv.kind = "radio" /\ variant = "staticfiles2"
  /\ show["orphanNote"] /\ required["guardianFile"]
  /\ ~show["disabilityDetails"] /\ ~required["disabilityNature"]
  /\ originalRequired["disabilityNature"] = "true"

\* the pages that differ from s in nothing but the value (text, number, file
\* or checked option) held by control f
OtherValues(s, f) ==
  CASE f \in TextFields -> {[s EXCEPT !.value[f] = v] : v \in TextValues(f)}
    [] f \in NumberFields -> {[s EXCEPT !.number[f] = v] : v \in EditNumbers(f)}
    [] f \in FileFields -> {[s EXCEPT !.files[f] = k] : k \in 0..1}
    [] OTHER -> {[s EXCEPT !.checked[f] = v] : v \in {"null", "True", "False"}}

\* C12: in src/static/app.js, for every control f inside a conditional group
\* that is not shown, validateField(f) is true whatever f holds, and neither
\* validateStep(step) for any step nor the first failing step found by the
\* loop of the submit handler changes when the value of f is changed.
C12_HiddenFieldsNeverBlock ==
  variant = "static" =>
    \A f \in Fields :
      InHiddenGroup(Cur, f) =>
        \A s2 \in OtherValues(Cur, f) :
          /\ validateField(s2, f)
          /\ \A step \in 1..totalSteps : validateStep(s2, step) = validateStep(Cur, step)
          /\ ValidateFrom(s2, 1).failing = ValidateFrom(Cur, 1).failing

C12_Witness ==
  /\ variant = "static" /\ lastEv.kind = "submit" /\ handedOff
  /\ ~show["disabilityDetails"] /\ AuthoredRequired("disabilityNature")
  /\ value["disabilityNature"] = ""
  /\ ~show["parentInfoGroup"] /\ AuthoredRequired("fatherName") /\ value["fatherName"] = ""

\* C13: in src/static/app.js, when the submit handler has run and some step
\* failed validation, currentStep is the lowest failing step, the error banner
\* is displayed, the submit control is enabled and labelled 'Submit
\* Application', and form.submit() has not been called.
C13_FailedSubmitShowsFirstFailingStep ==
  (variant = "static" /\ lastEv.kind = "submit" /\ lastEv.failStep # 0) =>
    /\ currentStep = lastEv.failStep
    /\ errorShown
    /\ ~submitDisabled /\ submitLabel = "Submit Application"
    /\ ~handedOff

\* C14: in src/static/app.js, form.submit() is called only by a submit event
\* in which validateStep(s) is true for every s in 1..totalSteps, and with the
\* call the submit control is disabled and labelled 'Submitting...'; the
\* control is disabled in no state without a hand-off.
C14_HandOffOnlyAfterFullValidation ==
  [][variant = "static" =>
       /\ (handedOff' /\ ~handedOff) =>
            /\ lastEv'.kind = "submit"
            /\ \A step \in 1..totalSteps : validateStep(Cur, step)
            /\ submitDisabled' /\ submitLabel' = "Submitting..."
       /\ submitDisabled' => handedOff']_vars

C14_Witness ==
  /\ variant = "static" /\ lastEv.kind = "submit" /\ handedOff
  /\ submitDisabled /\ submitLabel = "Submitting..." /\ edits < MaxEdits

\* C15: in src/static/app.js, while a required radio group of the section
\* displayed is visible and has no option checked, validateStep of that
\* section is false and no event moves currentStep forward or hands the form
\* off.
C15_UncheckedRequiredRadioBlocks ==
  [][variant = "static" =>
       \A r \in RequiredRadio :
         (FieldSection(r) = currentStep /\ ~InHiddenGroup(Cur, r) /\ checked[r] = "null") =>
           /\ ~validateStep(Cur, currentStep)
           /\ currentStep' <= currentStep
           /\ ~handedOff']_vars

\* C16: in src/static/app.js and src/unnamed/part_000, applying the radio
\* defaults to the served document checks the default option of a group iff no
\* option of the group was checked, leaves an option that was checked as it
\* was, and applying the defaults again changes nothing.
C16_DefaultsOnlyWhenUnchecked ==
  [][lastEv'.kind = "defaults" =>
       /\ \A r \in RadioNames :
            /\ (checked[r] = "null" /\ DefaultOf(variant, r) # "none")
                 => checked'[r] = DefaultOf(variant, r)
            /\ (checked[r] # "null" \/ DefaultOf(variant, r) = "none")
                 => checked'[r] = checked[r]
       /\ RadioDefaultsOf([Cur EXCEPT !.checked = checked']).checked = checked']_vars

\* the conditional groups whose rule in handleConditionalFields reads the radio r
RuleGroups(r) ==
  CASE r = "orphan" -> {"parentInfoGroup", "parentalStatusGroup", "orphanNote", "providerNote"}
    [] r = "disability" -> {"disabilityDetails"}
    [] r = "previousBursary" -> {"previousBursaryDetails", "previousBursaryDetailsContinued"}
    [] OTHER -> {"providerNote"}

\* C17: in src/static/app.js a radio change leaves the visibility and the
\* required flags of every conditional group whose rule does not read that radio
\* as they were: disability alters only disabilityDetails, previousBursary only
\* the two previous-bursary blocks, bothParentsAlive and singleParent at most
\* providerNote.
C17_UnrelatedGroupsUnchanged ==
  [][(variant = "static" /\ lastEv'.kind = "radio") =>
       \A r \in RadioNames :
         (checked'[r] # checked[r] /\ \A q \in RadioNames \ {r} : checked'[q] = checked[q]) =>
           \A g \in Groups \ RuleGroups(r) :
             /\ show'[g] = show[g]
             /\ \A f \in GroupFields(g) : required'[f] = required[f]]_vars

\* a disability change has just shown disabilityDetails on a page where the
\* orphan note is shown and the previous-bursary blocks are hidden
C17_Witness ==
  /\ variant = "static" /\ lastEv.kind = "radio"
  /\ checked["disability"] = "True" /\ show["disabilityDetails"] /\ required["disabilityNature"]
  /\ show["orphanNote"] /\ required["guardianFile"] /\ ~show["parentInfoGroup"]
  /\ ~show["previousBursaryDetails"] /\ ~show["previousBursaryDetailsContinued"]

\* C18: in src/static/app.js and both programs of src/staticfiles/app.js the
\* original required state of a field is captured once and never changes: it is
\* the authored one, a group that is shown again gives required back to exactly
\* the fields authored required, and a field not authored required never
\* becomes required.
C18_OriginalRequiredCapturedOnce ==
  [][(variant \in {"static", "staticfiles1", "staticfiles2"}) =>
       \A f \in Fields :
         /\ originalRequired[f] # "undefined" => originalRequired'[f] = originalRequired[f]
         /\ originalRequired'[f] # "undefined" =>
              originalRequired'[f] = (IF AuthoredRequiredIn(variant, f) THEN "true" ELSE "false")
         /\ required'[f] => AuthoredRequiredIn(variant, f)
         /\ (GroupOf(variant, f) # "none" /\ show'[GroupOf(variant, f)] /\ ~show[GroupOf(variant, f)]) =>
              (required'[f] <=> AuthoredRequiredIn(variant, f))]_vars

\* on the filled form the parent block was hidden (which cleared fatherName) and
\* is shown again, with fatherName required again
C18_Witness ==
  /\ variant = "static" /\ lastEv.kind = "radio"
  /\ value["fullName"] # "" /\ value["fatherName"] = ""
  /\ show["parentInfoGroup"] /\ required["fatherName"]
  /\ originalRequired["fatherName"] = "true" /\ originalRequired["parentPhone"] = "false"
  /\ ~required["parentPhone"]

\* C19: in src/app.js a payload is handed off only by the submit event or the
\* completion of a read, with every file that was attached read, and its files
\* are exactly the file inputs that had a file when the form was submitted;
\* a click on a navigation button while reads are pending neither ends a read
\* nor hands a payload off.
C19_HandOffAfterAllReads ==
  [][variant = "app" =>
       /\ Len(logged') > Len(logged) =>
            /\ lastEv'.kind \in {"submit", "readDone"}
            /\ logged'[Len(logged')].files = logged'[Len(logged')].had
       /\ lastEv'.kind = "click" => (pending' = pending /\ logged' = logged)]_vars

\* C20: in src/app.js, when the read of an attached file fails during a
\* submission, no payload is handed off, no success message appears, the form
\* is not reset, an error message is displayed and the submit button is enabled.
C20_ReadFailureShowsError ==
  [][(variant = "app" /\ lastEv'.kind = "readFail") =>
       /\ logged' = logged
       /\ successShown' => successShown
       /\ value' = value /\ number' = number /\ checked' = checked /\ files' = files
       /\ errorShown'
       /\ ~submitDisabled']_vars

\* C21: in src/static/app.js and src/app.js, after the load and after every
\* event exactly the section of index currentStep is active, a section is
\* completed iff its index is below currentStep, and the progress is
\* round(100 * (currentStep - 1) / (totalSteps - 1)): 0 at step 1, 100 at the
\* last step, strictly increasing with the step.
C21_ProgressFollowsStep ==
  variant \in {"static", "app"} =>
    /\ currentStep \in 1..totalSteps
    /\ activeSections = {currentStep}
    /\ completedSections = 1..(currentStep - 1)
    /\ 4 * pct - 2 <= 100 * (currentStep - 1) /\ 100 * (currentStep - 1) < 4 * pct + 2
    /\ (currentStep = 1) = (pct = 0)
    /\ (currentStep = totalSteps) = (pct = 100)
    /\ \A a, b \in 1..totalSteps : a < b => ProgressPct(a) < ProgressPct(b)

\* src/app.js has moved from step 2 to step 3: half of the bar, two sections completed
C21_Witness ==
  /\ variant = "app" /\ lastEv.kind = "click" /\ lastEv.from = 2
  /\ currentStep = 3 /\ pct = 50 /\ completedSections = {1, 2} /\ activeSections = {3}

\* the call goToStep(n) logged in ev reached the assignment of currentStep
Transitioned(ev) == (ev.ranValidate => ev.valid) /\ (ev.ranFin => ev.finOk)

\* C22: in src/static/app.js, right after a goToStep call that performs a
\* transition (forward or backward) neither the error banner nor the success
\* banner is displayed, whatever was displayed before: in a click the call ends
\* the listener, in a submit event it is the call goToStep(s) of the loop.
C22_TransitionClearsBanners ==
  [][variant = "static" =>
       /\ (lastEv'.kind = "click" /\ Transitioned(lastEv')) =>
            (~errorShown' /\ ~successShown' /\ currentStep' = lastEv'.n)
       /\ (lastEv'.kind = "submit" /\ lastEv'.failStep # 0 /\ Transitioned(lastEv')) =>
            \A ans \in Answers :
              lastEv' = SubmitLog(Cur, ans) =>
                /\ ~goToStep(ValidateFrom(Cur, 1).page, lastEv'.failStep, ans).errorShown
                /\ ~goToStep(ValidateFrom(Cur, 1).page, lastEv'.failStep, ans).successShown]_vars

\* a click has moved the page back from step 2 to step 1 with fields still
\* marked invalid by an earlier failed validation, and no banner is displayed
C22_Witness ==
  /\ variant = "static" /\ lastEv.kind = "click" /\ lastEv.from = 2 /\ lastEv.n = 1
  /\ currentStep = 1 /\ isInvalid # {} /\ ~errorShown /\ ~successShown

\* C23: in src/static/app.js the validateStep in effect calls validateField on
\* every control of the section, without stopping at the first failure (each
\* control of the section ends up marked or unmarked according to its own
\* result), returns true iff every call returned true, and neither evaluates
\* nor depends on the controls of the other sections.
C23_ValidateStepAggregates ==
  [][(variant = "static" /\ lastEv'.kind = "click" /\ lastEv'.ranValidate) =>
       /\ lastEv'.valid = (\A el \in SectionFields(currentStep) : validateField(Cur, el))
       /\ isInvalid' \cap SectionFields(currentStep)
            = {el \in SectionFields(currentStep) : ~validateField(Cur, el)}
       /\ isInvalid' \ SectionFields(currentStep) = isInvalid \ SectionFields(currentStep)
       /\ \A f \in Fields \ SectionFields(currentStep) :
            \A s2 \in OtherValues(Cur, f) :
              validateStep(s2, currentStep) = validateStep(Cur, currentStep)]_vars

\* the click on toStep3 with both amounts of section 2 empty: the two controls
\* are marked, the controls of section 1 are not
C23_Witness ==
  /\ variant = "static" /\ lastEv.kind = "click" /\ lastEv.from = 2 /\ lastEv.ranValidate
  /\ ~lastEv.valid /\ currentStep = 2
  /\ {"tuition_fee", "amount_requested"} \subseteq isInvalid /\ "fullName" \notin isInvalid

\* the control is empty in the sense of its type: no file selected, the empty
\* option selected, nothing but white space typed
EmptyControl(f) ==
  CASE FieldType(f) = "file" -> files[f] = 0
    [] FieldType(f) = "select" -> value[f] = ""
    [] FieldType(f) = "number" -> number[f] = <<>>
    [] FieldType(f) = "radio" -> FALSE
    [] OTHER -> value[f] \in {"", " "}

\* C24 as stated: in src/static/app.js validateField fails for a control that is
\* not in a hidden group iff the control is required and empty.
C24_FailsIffRequiredAndEmpty ==
  variant = "static" =>
    \A f \in Fields : ~InHiddenGroup(Cur, f) =>
        (~validateField(Cur, f) <=> (required[f] /\ EmptyControl(f)))

\* C24 amended: validateField fails for a control that is not in a hidden group
\* iff the control is required and empty, or it is amount_requested with an
\* amount above a positive tuition fee; a control that is not required never
\* fails for being empty.
C24_FailsIffEmptyOrAmountAboveFee ==
  variant = "static" =>
    \A f \in Fields : ~InHiddenGroup(Cur, f) =>
        /\ ~validateField(Cur, f) <=>
             \/ required[f] /\ EmptyControl(f)
             \/ /\ f = "amount_requested"
                /\ TuitionFeeValue > 0 /\ AmountRequestedValue > TuitionFeeValue
        /\ (~required[f] /\ EmptyControl(f)) => validateField(Cur, f)

\* the forward click at step 2 has marked amount_requested, which is required,
\* filled and above the tuition fee, while tuition_fee passed
C24_Witness ==
  /\ variant = "static" /\ lastEv.kind = "click" /\ lastEv.ranValidate /\ ~lastEv.valid
  /\ currentStep = 2 /\ required["amount_requested"]
  /\ TuitionFeeValue = 20 /\ AmountRequestedValue = 21
  /\ isInvalid = {"amount_requested"}

\* C25: in src/static/app.js, when orphan becomes True the parent-information
\* group and the parental-status group are hidden, every radio in them is
\* unchecked and every other control in them is emptied whatever its type, and
\* none of their controls is required.
C25_OrphanClearsParentGroups ==
  [][(variant = "static" /\ lastEv'.kind = "radio"
        /\ checked["orphan"] # "True" /\ checked'["orphan"] = "True") =>
       /\ ~show'["parentInfoGroup"] /\ ~show'["parentalStatusGroup"]
       /\ \A f \in GroupFields("parentInfoGroup") \cup GroupFields("parentalStatusGroup") :
            /\ ~required'[f]
            /\ f \in RadioNames => checked'[f] = "null"
            /\ f \in TextFields => value'[f] = ""
            /\ f \in NumberFields => number'[f] = <<>>
            /\ f \in FileFields => files'[f] = 0]_vars

\* C26: every property of the body that doPost reads for the sheet row is a key
\* of the payload the submit handler of src/app.js hands off, and every file key
\* doPost reads is one of the handler's file ids.
C26_PayloadMatchesDoPost ==
  variant = "app" =>
    \A i \in 1..Len(logged) :
      /\ doPostBodyFields \subseteq PayloadKeys
      /\ doPostFileKeys \subseteq {fileIds[k] : k \in 1..Len(fileIds)}
      /\ logged[i].files \subseteq {fileIds[k] : k \in 1..Len(fileIds)}

\* C27: in src/unnamed/part_000 and in the second program of
\* src/staticfiles/app.js, whenever currentStep goes from 2 to 3 (a click on
\* toStep3 with all its listeners, or the Enter key) the financial check was run
\* by that event and it passed.
C27_StepTwoToThreeNeedsFinancialCheck ==
  [][((variant \in {"part000", "staticfiles2"}) /\ currentStep = 2 /\ currentStep' = 3) =>
       (lastEv'.ranFin /\ lastEv'.finOk)]_vars

\* C28: in the first program of src/staticfiles/app.js and in
\* src/unnamed/part_000, providerNote is shown iff orphan is True or
\* bothParentsAlive is False or singleParent is True, for every combination of
\* radio values; with bothParentsAlive unset (and the other two not True) it is
\* hidden.
C28_ProviderNoteUnsetIsNotFalse ==
  (variant \in {"staticfiles1", "part000"}) =>
    (show["providerNote"] <=>
       (checked["orphan"] = "True" \/ checked["bothParentsAlive"] = "False"
          \/ checked["singleParent"] = "True"))

\* C29: in src/unnamed/part_000 and in the second program of
\* src/staticfiles/app.js, validateFinancialFields returns false whenever the
\* amount requested is not above zero, whatever the answers to the dialogs.
C29_NonPositiveAmountRejected ==
  (lastEv.kind = "fin" /\ (variant \in FinVariants) /\ AmountRequestedValue <= 0)
    => ~lastEv.finOk

\* C30: in src/app.js a control inside a conditional block that is hidden never
\* makes validateStep return false: whatever the control holds, the result of
\* validateStep is the same for every step, so it blocks neither forward
\* navigation nor submission.
C30_HiddenRequiredNeverBlocks_app ==
  variant = "app" =>
    \A f \in Fields : InHiddenGroup(Cur, f) =>
        \A s2 \in OtherValues(Cur, f) :
          \A step \in 1..totalSteps : validateStep_app(s2, step) = validateStep_app(Cur, step)

\* C31: in src/app.js the visibility of the conditional blocks is a function of
\* the checked radio options only: switching a radio the user can operate to its
\* other option and back, which ends with the same checked options, ends with
\* the same visibility for every block, providerNote included.
C31_VisibilityFunctionOfRadios_app ==
  variant = "app" =>
    \A r \in RadioNames : (Operable(r) /\ checked[r] # "null") =>
        \A v \in RadioValues("app") \ {checked[r]} :
          radioChange_app([radioChange_app([Cur EXCEPT !.checked[r] = v], r, v)
                             EXCEPT !.checked[r] = checked[r]], r, checked[r]).show = show

\* C32: in src/app.js at most one submit handler at a time is between the
\* success of its all-steps validation and the end of its hand-off: while one
\* handler is suspended waiting for a file read, no second submit event passes
\* validation and is suspended or handed off as well.
C32_NoSecondSubmitWhilePending_app ==
  variant = "app" => Len(pending) <= 1

C34_StepIncreasesByAtMostOne ==
  [][variant = "static" => currentStep' <= currentStep + 1]_vars

\* C35: in src/static/app.js, after initialization every radio group that has
\* a default (orphan, disability, previousBursary, singleParent,
\* bothParentsAlive) has an option checked in every reachable state.
C35_DefaultedRadiosStayChecked ==
  variant = "static" => \A r \in RadioNames : checked[r] # "null"

\* C36: in src/app.js every payload handed off is a snapshot of the form at the
\* moment the all-steps validation succeeded: its text values are the trimmed
\* values of that moment (they are stored when the handler builds the object,
\* before the first read) and its files are exactly the files attached then.
C36_PayloadIsSnapshot_app ==
  variant = "app" =>
    \A i \in 1..Len(logged) : logged[i].files = logged[i].had

\* C37: in src/app.js, when a submission has completed (a payload was handed
\* off) the form is back in its initial state: currentStep = 1, the submit
\* control enabled, the default option No checked for orphan, disability,
\* previousBursary and singleParent, and every conditional block hidden.
C37_FormInitialAfterHandOff_app ==
  [][(variant = "app" /\ Len(logged') > Len(logged)) =>
       /\ currentStep' = 1
       /\ ~submitDisabled'
       /\ \A r \in RadioNames \ {"bothParentsAlive"} : checked'[r] = No("app")
       /\ \A g \in Groups : ~show'[g]]_vars

\* C38: in src/static/app.js handleConditionalFields is idempotent: for every
\* radio change the user can make, running it twice (once per change listener
\* of the form) leaves the same page, visibility, required flags, field values
\* and originalRequired records included, as running it once.
C38_HandleConditionalFieldsIdempotent ==
  variant = "static" =>
    \A r \in RadioNames : \A v \in RadioValues("static") :
      (Operable(r) /\ checked[r] # v) =>
        \A s1 \in {handleConditionalFields([Cur EXCEPT !.checked[r] = v])} :
          handleConditionalFields(s1) = s1

\* a radio change has been handled and the next one would hide a block and
\* empty a control or uncheck a radio in it
C38_Witness ==
  /\ variant = "static" /\ lastEv.kind = "radio"
  /\ \E r \in RadioNames : \E v \in RadioValues("static") :
       /\ Operable(r) /\ checked[r] # v
       /\ \E s1 \in {handleConditionalFields([Cur EXCEPT !.checked[r] = v])} :
            /\ s1.show # show
            /\ s1.value # value \/ \E q \in RadioNames \ {r} : s1.checked[q] # checked[q]

\* C39: in the chatbot of src/static/app.js at most one user message is in
\* flight (accepted by sendMessage, its bot reply not yet delivered), at most
\* one typing indicator exists, and the bot replies are delivered in the order
\* of the messages that caused them.
C39_OneMessageInFlight ==
  /\ chat.sent - Len(chat.replies) <= 1
  /\ chat.indicators <= 1
  /\ \A i, j \in 1..Len(chat.replies) : i < j => chat.replies[i] < chat.replies[j]

====
